---- MODULE Spec2Model ----
(***************************************************************************)
(* Websocket notification manager and client of stcd (rpcwebsocket.go):    *)
(* the queue relay (queueHandler), the notification router                 *)
(* (notificationHandler) with its subscription indices, the server glue    *)
(* (WebsocketHandler, NumClients) and wsClient.Disconnect.                 *)
(***************************************************************************)
EXTENDS Integers, Sequences, FiniteSets, TLC

(***************************************************************************)
(* Universes.  Clients are identified by their quit channel; addresses by  *)
(* their encoded string; an outpoint is <<tx hash, output index>>.         *)
(***************************************************************************)
Clients == {"c1", "c2"}

\* cfg.RPCMaxWebsockets
RPCMaxWebsockets == 1

\* The websocket connections the server is handed, in the order it is handed
\* them: one more than the limit.  Each becomes a client when admitted.
ConnNames == <<"c1", "c2", "c3", "c4">>

Conns == {ConnNames[i] : i \in 1..(RPCMaxWebsockets + 1)}

\* The callers of NotifyBlockConnected/NotifyBlockDisconnected and of
\* NotifyMempoolTx.
Publishers == {"blockManager", "mempool"}

\* The tasks of a client that send register messages: its inHandler and the
\* handler of a rescan.
Tasks == {"inHandler", "rescanHandler"}

\* The tasks that call Disconnect on one client.
DiscCallers == {"inHandler", "outHandler", "notificationHandler"}

\* Most Notify* calls of one run.
MaxSends == 4

\* Most Disconnect calls of one caller.
MaxDisconnects == 2

Addrs == {"a1", "a2"}

NoClient == "none"

\* The transactions the block manager and the mempool hand over.  A hash
\* names one transaction: tx 1 spends an outpoint nobody can name here and
\* has two outputs (the second a multisig paying both addresses); tx 2
\* spends both outputs of tx 1.
TxHashes == {1, 2}

TxIn(h) == IF h = 1 THEN << <<0, 0>> >> ELSE << <<1, 0>>, <<1, 1>> >>

TxOut(h) == IF h = 1 THEN << <<"a1">>, <<"a1", "a2">> >> ELSE << <<"a2">> >>

\* The outpoints clients name in notifyspent and stopnotifyspent requests.
OutPoints == {<<1, 0>>, <<1, 1>>}

\* Longest outpoint or address list of one register request.
MaxOps == 2

\* Most transactions of one block.
MaxBlockTxs == 2

\* Most steps (messages handled, clients disconnecting) of one run of the
\* router.
MaxMsgs == 4

SeqsUpTo(S, n) == UNION {[1..k -> S] : k \in 0..n}

IsInjective(s) == \A i, j \in DOMAIN s : s[i] = s[j] => i = j

\* A block the chain can connect: its transactions are distinct and a
\* transaction spends only outputs of transactions placed before it (or of
\* earlier blocks), never its own or a later one's.
ValidBlock(b) ==
    /\ Len(b) >= 1
    /\ IsInjective(b)
    /\ \A i \in DOMAIN b : \A k \in DOMAIN TxIn(b[i]) :
          \A j \in DOMAIN b : j >= i => TxIn(b[i])[k][1] # b[j]

Blocks == {b \in SeqsUpTo(TxHashes, MaxBlockTxs) : ValidBlock(b)}

NoBlock == << >>

VARIABLES
    \* notificationHandler's locals (the subscription indices)
    clients, blockNotifications, txNotifications, watchedOutPoints, watchedAddrs,
    \* wsClient fields owned by the notification manager
    spentRequests, addrRequests,
    \* wsClient fields
    verboseTxUpdates, disconnected,
    quitCloses, connCloses,
    \* what handling the last message did, and how many were handled
    lastMsg, ntfns, handled,
    \* notificationHandler's place in its loop and the message it holds
    routerPc, routerMsg,
    \* queueHandler's locals, and whether it still runs
    q, next, skipQueue, dequeue, relayPc,
    \* the manager's quit channel is closed
    quit,
    \* the message each sender is blocked sending on queueNotification
    sendReq,
    \* Notify* calls made; what the relay took from in and gave to out, and how
    calls, accepted, emitted, path,
    \* WebsocketHandler's place per connection and what NumClients returned
    wsPc, seen,
    \* registerClient and unregisterClient messages the router has handled
    nReg, nUnreg,
    \* Disconnect callers of one client: the mutex, each caller's place and calls
    mutex, dPc, dCalls,
    \* one client's reader: its authentication, its place in inHandler, the
    \* message it read, messages read and messages handled unauthenticated
    authenticated, isAdmin, inPc, inMsg, nRead, nPreAuth,
    \* what handleMessage did: replies given to SendMessage, handlers it
    \* dispatched, control messages its handlers sent to the router
    replies, dispatched, ctl,
    \* the callers of QueueNotification on that client: each one's place, the
    \* notification it carries and what its last call returned; calls made
    qnPc, qnMsg, qnRes, nQn,
    \* the client's channels
    ntfnChan, ntfnSentChan, sendChan,
    \* notificationQueueHandler: its place, the message it is sending, its
    \* pending list and waiting flag
    nqPc, nqMsg, pendingNtfns, waiting,
    \* outHandler: its place and the response it took off sendChan
    outPc, outMsg,
    \* a task replying with SendMessage: its place and the replies sent
    rdPc, nReplies,
    \* notifications in the order they entered ntfnChan, entered sendChan and
    \* were written to the socket
    enq, handed, written,
    \* a register followed by its unregister: the place in the pair, the
    \* unregister message and the indices before the pair
    undoPc, undoMsg, snap,
    \* a mempool transaction whose verbose form cannot be built: whether it
    \* was handled, and the order notifyForNewTx ranged over its clients
    fanPc, fanOrder,
    \* the long-running commands of one client: the reader's place in its
    \* dispatch and the command it holds, commands dispatched, asyncChan,
    \* asyncHandler's place, pending list, waiting flag and done channel,
    \* each command's handler, and the commands in the order they were put
    \* on asyncChan and in the order their handlers were started
    rdrPc, rdrCmd, nCmds, asyncChan, asPc, pendingCmds, asWaiting,
    asyncHandlerDoneChan, hPc, asReceived, asStarted,
    \* the block store: the best chain (block hashes by height, from 0), each
    \* block's previous hash, the next new hash; the block manager: its
    \* place, the chain length a reorganize started from, whether it is
    \* paused; the registrations and blockConnected notifications in the
    \* order they were given to the notification manager
    chain, prevOf, nextHash, bmPc, origLen, paused, rsLog,
    \* handleRescan: its place, parameters and locals, its result, the
    \* notifications it queued, the blocks it scanned, progress notifications
    \* made, whether it registered the client, and whether a block it had
    \* scanned was reorganized out while it ran
    rsPc, rsBegin, rsEnd, minBlock, maxBlock, hashList, rsI, lastBlockHash, rsResult,
    rsOut, scanned, nProgress, registered, reorgedOut,
    \* rescanBlock: its place, the block, the keys and the unspent outpoints
    \* of the request, the notifications that cannot be marshalled, the
    \* number of notifications queued before the client disconnects, the
    \* index of the next transaction, the locals, and per transaction the
    \* unspent set before and after it
    sbPc, sbBlock, sbKeys, sbFails, sbQuitAfter, sbI, sbSt, sbLog,
    \* the tasks of one client that subscribe it: the place of its inHandler
    \* and the subscription command it handles, the replies it has placed on
    \* sendChan (each with the number of events the relay had accepted by
    \* then), and the place of a rescan handler that registers the client
    subPc, subMsg, replied, upPc

indexVars == <<clients, blockNotifications, txNotifications, watchedOutPoints,
               watchedAddrs, spentRequests, addrRequests>>

obsVars == <<lastMsg, ntfns>>

flagVars == <<disconnected, quitCloses, connCloses>>

queueVars == <<q, next, skipQueue, dequeue>>

takeVars == <<routerPc, routerMsg, emitted, path>>

serverVars == <<wsPc, seen>>

countVars == <<nReg, nUnreg>>

lockVars == <<mutex, dPc, dCalls>>

authVars == <<authenticated, isAdmin, inPc, inMsg, nRead, nPreAuth, replies,
              dispatched, ctl>>

callerVars == <<qnPc, qnMsg, qnRes, nQn>>

nqVars == <<nqPc, nqMsg, pendingNtfns, waiting>>

outVars == <<outPc, outMsg, written>>

replyVars == <<rdPc, nReplies>>

pipeVars == <<callerVars, nqVars, outVars, replyVars, ntfnChan, ntfnSentChan,
              sendChan, enq, handed>>

undoVars == <<undoPc, undoMsg, snap>>

fanVars == <<fanPc, fanOrder>>

asyncVars == <<rdrPc, rdrCmd, nCmds, asyncChan, asPc, pendingCmds, asWaiting,
               asyncHandlerDoneChan, hPc, asReceived, asStarted>>

storeVars == <<chain, prevOf, nextHash, bmPc, origLen, paused, rsLog>>

rsVars == <<rsPc, rsBegin, rsEnd, minBlock, maxBlock, hashList, rsI, lastBlockHash,
            rsResult, rsOut, scanned, nProgress, registered>>

scanVars == <<sbPc, sbBlock, sbKeys, sbFails, sbQuitAfter, sbI, sbSt, sbLog>>

rescanVars == <<storeVars, rsVars, reorgedOut, scanVars>>

subVars == <<subPc, subMsg, replied, upPc>>

extVars == <<undoVars, fanVars, asyncVars, rescanVars, subVars>>

restVars == <<verboseTxUpdates, authVars, pipeVars, extVars>>

vars == <<indexVars, obsVars, flagVars, queueVars, takeVars, serverVars,
          countVars, lockVars, restVars, handled, relayPc, quit,
          sendReq, calls, accepted>>

(***************************************************************************)
(* Go maps as functions on their key set.                                  *)
(***************************************************************************)
MapPut(m, k, v) == [x \in (DOMAIN m) \cup {k} |-> IF x = k THEN v ELSE m[x]]

MapDel(m, k) == [x \in (DOMAIN m) \ {k} |-> m[x]]

EmptyMap == [x \in {} |-> {}]

(***************************************************************************)
(* Messages of the notificationMsgs channel.                               *)
(***************************************************************************)
Msg(t, c, o, a, b, n) ==
    [type |-> t, wsc |-> c, ops |-> o, addrs |-> a, txs |-> b, isNew |-> n]

\* What is remembered of the message handled last: its kind, its client and
\* its block or transaction.
Label(m) == [type |-> m.type, wsc |-> m.wsc, txs |-> m.txs, isNew |-> m.isNew]

NoMsg == Msg("none", NoClient, << >>, << >>, << >>, FALSE)

NoLabel == Label(NoMsg)

ClientMsg(t, c) == Msg(t, c, << >>, << >>, << >>, FALSE)

ControlTypes == {"registerClient", "unregisterClient", "registerBlocks",
                 "unregisterBlocks", "registerNewMempoolTxs",
                 "unregisterNewMempoolTxs"}

ControlMsgs ==
    {ClientMsg(t, c) : t \in ControlTypes, c \in Clients}
    \cup {Msg("registerSpent", c, o, << >>, << >>, FALSE) :
            c \in Clients, o \in SeqsUpTo(OutPoints, MaxOps)}
    \cup {Msg("unregisterSpent", c, <<o>>, << >>, << >>, FALSE) :
            c \in Clients, o \in OutPoints}
    \cup {Msg("registerAddr", c, << >>, a, << >>, FALSE) :
            c \in Clients, a \in SeqsUpTo(Addrs, MaxOps)}
    \cup {Msg("unregisterAddr", c, << >>, <<a>>, << >>, FALSE) :
            c \in Clients, a \in Addrs}

EventMsgs ==
    {Msg("blockConnected", NoClient, << >>, << >>, b, FALSE) : b \in Blocks}
    \cup {Msg("blockDisconnected", NoClient, << >>, << >>, b, FALSE) : b \in Blocks}
    \cup {Msg("mempoolTx", NoClient, << >>, << >>, <<h>>, n) :
            h \in TxHashes, n \in BOOLEAN}

(***************************************************************************)
(* The router's working state while it handles one message: the two        *)
(* outpoint/address indices, the clients' mirror sets, the notifications   *)
(* queued so far (per client, in queueing order) and the wscNotified set   *)
(* of the transaction being scanned.                                       *)
(***************************************************************************)
Ntfn(kind, h, blk) == [kind |-> kind, tx |-> h, block |-> blk]

CurSt == [wop |-> watchedOutPoints, wad |-> watchedAddrs,
          spent |-> spentRequests, addr |-> addrRequests,
          ntf |-> [c \in Conns |-> << >>], notified |-> {}]

\* wsClient.Disconnected
Disconnected(c) == disconnected[c]

\* wsClient.QueueNotification: nothing is queued for a disconnected client.
QueueNotification(st, c, n) ==
    IF Disconnected(c) THEN st
    ELSE [st EXCEPT !.ntf[c] = Append(@, n)]

RECURSIVE QueueToAll(_, _, _)
QueueToAll(st, cs, n) ==
    IF cs = {} THEN st
    ELSE LET c == CHOOSE x \in cs : TRUE
         IN QueueToAll(QueueNotification(st, c, n), cs \ {c}, n)

\* addSpentRequests, one outpoint of its loop
addSpentRequest(st, c, op) ==
    LET cmap == IF op \in DOMAIN st.wop THEN st.wop[op] ELSE {}
    IN [st EXCEPT !.spent[c] = @ \cup {op},
                  !.wop = MapPut(@, op, cmap \cup {c})]

RECURSIVE addSpentRequests(_, _, _)
addSpentRequests_nothing(st, c, ops) == st

addSpentRequests(st, c, ops) ==
    IF ops = << >> THEN st
    ELSE addSpentRequests(addSpentRequest(st, c, Head(ops)), c, Tail(ops))

removeSpentRequest_keepsMirror(st, c, op) ==
    IF op \notin DOMAIN st.wop THEN st
    ELSE LET notifyMap == st.wop[op] \ {c}
         IN [st EXCEPT !.wop = IF notifyMap = {} THEN MapDel(@, op)
                                ELSE MapPut(@, op, notifyMap)]

removeSpentRequest_keepsKey(st, c, op) ==
    LET s1 == [st EXCEPT !.spent[c] = @ \ {op}]
    IN IF op \notin DOMAIN s1.wop THEN s1
       ELSE [s1 EXCEPT !.wop = MapPut(@, op, s1.wop[op] \ {c})]

removeSpentRequest(st, c, op) ==
    LET s1 == [st EXCEPT !.spent[c] = @ \ {op}]
    IN IF op \notin DOMAIN s1.wop THEN s1
       ELSE LET notifyMap == s1.wop[op] \ {c}
            IN [s1 EXCEPT !.wop = IF notifyMap = {} THEN MapDel(@, op)
                                   ELSE MapPut(@, op, notifyMap)]

\* addAddrRequests, one address of its loop
addAddrRequest(st, c, a) ==
    LET cmap == IF a \in DOMAIN st.wad THEN st.wad[a] ELSE {}
    IN [st EXCEPT !.addr[c] = @ \cup {a},
                  !.wad = MapPut(@, a, cmap \cup {c})]

RECURSIVE addAddrRequests(_, _, _)
addAddrRequests(st, c, as) ==
    IF as = << >> THEN st
    ELSE addAddrRequests(addAddrRequest(st, c, Head(as)), c, Tail(as))

removeAddrRequest_dropsKey(st, c, a) ==
    LET s1 == [st EXCEPT !.addr[c] = @ \ {a}]
    IN IF a \notin DOMAIN s1.wad THEN s1
       ELSE [s1 EXCEPT !.wad = MapDel(@, a)]

removeAddrRequest(st, c, a) ==
    LET s1 == [st EXCEPT !.addr[c] = @ \ {a}]
    IN IF a \notin DOMAIN s1.wad THEN s1
       ELSE LET cmap == s1.wad[a] \ {c}
            IN [s1 EXCEPT !.wad = IF cmap = {} THEN MapDel(@, a)
                                   ELSE MapPut(@, a, cmap)]

RECURSIVE removeAllSpent(_, _, _)
removeAllSpent(st, c, ops) ==
    IF ops = {} THEN st
    ELSE LET op == CHOOSE x \in ops : TRUE
         IN removeAllSpent(removeSpentRequest(st, c, op), c, ops \ {op})

RECURSIVE removeAllAddr(_, _, _)
removeAllAddr(st, c, as) ==
    IF as = {} THEN st
    ELSE LET a == CHOOSE x \in as : TRUE
         IN removeAllAddr(removeAddrRequest(st, c, a), c, as \ {a})

(***************************************************************************)
(* The transaction scan: notifyForTx, notifyForTxIns, notifyForTxOuts.     *)
(***************************************************************************)
\* The wscNotified test of both loops.
AlreadyNotified_never(st, c) == FALSE

AlreadyNotified(st, c) == c \in st.notified

NotifyOnce(st, c, n) ==
    IF AlreadyNotified(st, c) THEN st
    ELSE QueueNotification([st EXCEPT !.notified = @ \cup {c}], c, n)

\* The block != nil test of notifyForTxIns.
RemovesSpent_always(block) == TRUE

RemovesSpent(block) == block # NoBlock

\* notifyForTxIns, one client of the loop over the clients watching prevOut
TxInClient_removesWhenNotifying(st, c, prevOut, n, block) ==
    IF AlreadyNotified(st, c) THEN st
    ELSE NotifyOnce(IF RemovesSpent(block) THEN removeSpentRequest(st, c, prevOut)
                    ELSE st, c, n)

TxInClient(st, c, prevOut, n, block) ==
    NotifyOnce(IF RemovesSpent(block) THEN removeSpentRequest(st, c, prevOut)
               ELSE st, c, n)

RECURSIVE TxInClients(_, _, _, _, _)
TxInClients(st, cs, prevOut, n, block) ==
    IF cs = {} THEN st
    ELSE LET c == CHOOSE x \in cs : TRUE
         IN TxInClients(TxInClient(st, c, prevOut, n, block), cs \ {c},
                        prevOut, n, block)

RECURSIVE TxInLoop(_, _, _, _)
TxInLoop(st, ins, h, block) ==
    IF ins = << >> THEN st
    ELSE LET prevOut == Head(ins)
             s1 == IF prevOut \in DOMAIN st.wop
                   THEN TxInClients(st, st.wop[prevOut], prevOut,
                                    Ntfn("redeemingtx", h, block), block)
                   ELSE st
         IN TxInLoop(s1, Tail(ins), h, block)

notifyForTxIns(st, h, block) ==
    IF DOMAIN st.wop = {} THEN st
    ELSE TxInLoop([st EXCEPT !.notified = {}], TxIn(h), h, block)

\* notifyForTxOuts, the loop over the clients watching one address
RECURSIVE TxOutClients(_, _, _, _)
TxOutClients(st, cs, op, n) ==
    IF cs = {} THEN st
    ELSE LET c == CHOOSE x \in cs : TRUE
         IN TxOutClients(NotifyOnce(addSpentRequests(st, c, <<op>>), c, n),
                         cs \ {c}, op, n)

\* the loop over the addresses of output i
RECURSIVE TxOutAddrs(_, _, _, _, _)
TxOutAddrs(st, txAddrs, h, i, block) ==
    IF txAddrs = << >> THEN st
    ELSE LET a == Head(txAddrs)
             s1 == IF a \in DOMAIN st.wad
                   THEN TxOutClients(st, st.wad[a], <<h, i - 1>>,
                                     Ntfn("recvtx", h, block))
                   ELSE st
         IN TxOutAddrs(s1, Tail(txAddrs), h, i, block)

\* the loop over the outputs (i is the output's place, from 1)
RECURSIVE TxOutLoop(_, _, _, _)
TxOutLoop(st, i, h, block) ==
    IF i > Len(TxOut(h)) THEN st
    ELSE TxOutLoop(TxOutAddrs(st, TxOut(h)[i], h, i, block), i + 1, h, block)

notifyForTxOuts(st, h, block) ==
    IF DOMAIN st.wad = {} THEN st
    ELSE TxOutLoop([st EXCEPT !.notified = {}], 1, h, block)

notifyForTx(st, h, block) ==
    LET s1 == IF DOMAIN st.wop # {} THEN notifyForTxIns(st, h, block) ELSE st
    IN IF DOMAIN s1.wad # {} THEN notifyForTxOuts(s1, h, block) ELSE s1

RECURSIVE BlockTxs(_, _, _)
BlockTxs(st, txs, block) ==
    IF txs = << >> THEN st
    ELSE BlockTxs(notifyForTx(st, Head(txs), block), Tail(txs), block)

\* notifyBlockConnected / notifyBlockDisconnected
notifyBlock_allClients(st, kind, block) ==
    QueueToAll(st, clients, Ntfn(kind, 0, block))

notifyBlock(st, kind, block) ==
    IF blockNotifications = {} THEN st
    ELSE QueueToAll(st, blockNotifications, Ntfn(kind, 0, block))

\* notifyForNewTx: the compact or the verbose form, by the client's flag
RECURSIVE NewTxClients(_, _, _)
NewTxClients(st, cs, h) ==
    IF cs = {} THEN st
    ELSE LET c == CHOOSE x \in cs : TRUE
             kind == IF verboseTxUpdates[c] THEN "txacceptedverbose" ELSE "txaccepted"
         IN NewTxClients(QueueNotification(st, c, Ntfn(kind, h, NoBlock)),
                         cs \ {c}, h)

notifyForNewTx(st, h) == NewTxClients(st, txNotifications, h)

(***************************************************************************)
(* notificationHandler: the handling of one message.                       *)
(***************************************************************************)
Commit(st, m) ==
    /\ watchedOutPoints' = st.wop
    /\ watchedAddrs' = st.wad
    /\ spentRequests' = st.spent
    /\ addrRequests' = st.addr
    /\ ntfns' = st.ntf
    /\ lastMsg' = Label(m)

BlockConnected(m) ==
    /\ m.type = "blockConnected"
    /\ LET s1 == IF DOMAIN watchedOutPoints # {} \/ DOMAIN watchedAddrs # {}
                 THEN BlockTxs(CurSt, m.txs, m.txs)
                 ELSE CurSt
       IN Commit(notifyBlock(s1, "blockconnected", m.txs), m)
    /\ UNCHANGED <<clients, blockNotifications, txNotifications>>

BlockDisconnected(m) ==
    /\ m.type = "blockDisconnected"
    /\ Commit(notifyBlock(CurSt, "blockdisconnected", m.txs), m)
    /\ UNCHANGED <<clients, blockNotifications, txNotifications>>

TxAcceptedByMempool(m) ==
    /\ m.type = "mempoolTx"
    /\ LET s1 == IF m.isNew /\ txNotifications # {}
                 THEN notifyForNewTx(CurSt, m.txs[1])
                 ELSE CurSt
       IN Commit(notifyForTx(s1, m.txs[1], NoBlock), m)
    /\ UNCHANGED <<clients, blockNotifications, txNotifications>>

RegisterBlocks(m) ==
    /\ m.type = "registerBlocks"
    /\ blockNotifications' = blockNotifications \cup {m.wsc}
    /\ Commit(CurSt, m)
    /\ UNCHANGED <<clients, txNotifications>>

UnregisterBlocks_keeps(m) ==
    /\ m.type = "unregisterBlocks"
    /\ Commit(CurSt, m)
    /\ UNCHANGED <<clients, blockNotifications, txNotifications>>

UnregisterBlocks(m) ==
    /\ m.type = "unregisterBlocks"
    /\ blockNotifications' = blockNotifications \ {m.wsc}
    /\ Commit(CurSt, m)
    /\ UNCHANGED <<clients, txNotifications>>

RegisterClient(m) ==
    /\ m.type = "registerClient"
    /\ clients' = clients \cup {m.wsc}
    /\ Commit(CurSt, m)
    /\ UNCHANGED <<blockNotifications, txNotifications>>

UnregisterClient_keepsAddrs(m) ==
    /\ m.type = "unregisterClient"
    /\ blockNotifications' = blockNotifications \ {m.wsc}
    /\ txNotifications' = txNotifications \ {m.wsc}
    /\ Commit(removeAllSpent(CurSt, m.wsc, spentRequests[m.wsc]), m)
    /\ clients' = clients \ {m.wsc}

UnregisterClient(m) ==
    /\ m.type = "unregisterClient"
    /\ blockNotifications' = blockNotifications \ {m.wsc}
    /\ txNotifications' = txNotifications \ {m.wsc}
    /\ LET s1 == removeAllSpent(CurSt, m.wsc, spentRequests[m.wsc])
       IN Commit(removeAllAddr(s1, m.wsc, addrRequests[m.wsc]), m)
    /\ clients' = clients \ {m.wsc}

RegisterSpent(m) ==
    /\ m.type = "registerSpent"
    /\ Commit(addSpentRequests(CurSt, m.wsc, m.ops), m)
    /\ UNCHANGED <<clients, blockNotifications, txNotifications>>

UnregisterSpent(m) ==
    /\ m.type = "unregisterSpent"
    /\ Commit(removeSpentRequest(CurSt, m.wsc, m.ops[1]), m)
    /\ UNCHANGED <<clients, blockNotifications, txNotifications>>

RegisterAddr(m) ==
    /\ m.type = "registerAddr"
    /\ Commit(addAddrRequests(CurSt, m.wsc, m.addrs), m)
    /\ UNCHANGED <<clients, blockNotifications, txNotifications>>

UnregisterAddr(m) ==
    /\ m.type = "unregisterAddr"
    /\ Commit(removeAddrRequest(CurSt, m.wsc, m.addrs[1]), m)
    /\ UNCHANGED <<clients, blockNotifications, txNotifications>>

RegisterNewMempoolTxs(m) ==
    /\ m.type = "registerNewMempoolTxs"
    /\ txNotifications' = txNotifications \cup {m.wsc}
    /\ Commit(CurSt, m)
    /\ UNCHANGED <<clients, blockNotifications>>

UnregisterNewMempoolTxs(m) ==
    /\ m.type = "unregisterNewMempoolTxs"
    /\ txNotifications' = txNotifications \ {m.wsc}
    /\ Commit(CurSt, m)
    /\ UNCHANGED <<clients, blockNotifications>>

\* The type switch of notificationHandler.
HandleMsg(m) ==
    \/ BlockConnected(m)
    \/ BlockDisconnected(m)
    \/ TxAcceptedByMempool(m)
    \/ RegisterBlocks(m)
    \/ UnregisterBlocks(m)
    \/ RegisterClient(m)
    \/ UnregisterClient(m)
    \/ RegisterSpent(m)
    \/ UnregisterSpent(m)
    \/ RegisterAddr(m)
    \/ UnregisterAddr(m)
    \/ RegisterNewMempoolTxs(m)
    \/ UnregisterNewMempoolTxs(m)

(***************************************************************************)
(* wsClient.Disconnect.                                                    *)
(***************************************************************************)
\* The whole of Disconnect under the client's mutex, as other tasks see it.
DisconnectNow_nothing(cs) == UNCHANGED <<disconnected, quitCloses, connCloses>>

DisconnectNow(cs) ==
    /\ disconnected' = [c \in Conns |-> disconnected[c] \/ c \in cs]
    /\ quitCloses' = [c \in Conns |->
          IF c \in cs /\ ~disconnected[c] THEN quitCloses[c] + 1 ELSE quitCloses[c]]
    /\ connCloses' = [c \in Conns |->
          IF c \in cs /\ ~disconnected[c] THEN connCloses[c] + 1 ELSE connCloses[c]]

(***************************************************************************)
(* The router fed with any message in any order, and clients that          *)
(* disconnect at any time.                                                 *)
(***************************************************************************)
\* notificationHandler takes the next message off notificationMsgs.
RouterStep ==
    /\ handled < MaxMsgs
    /\ handled' = handled + 1
    /\ \E m \in ControlMsgs \cup EventMsgs : HandleMsg(m)
    /\ UNCHANGED <<flagVars, queueVars, takeVars, serverVars, countVars, lockVars,
                   restVars, relayPc, quit, sendReq, calls, accepted>>

\* One of the client's tasks calls Disconnect.
ClientDisconnects ==
    /\ handled < MaxMsgs
    /\ handled' = handled + 1
    /\ \E c \in Clients :
          /\ ~disconnected[c]
          /\ DisconnectNow({c})
    /\ lastMsg' = NoLabel
    /\ ntfns' = [c \in Conns |-> << >>]
    /\ UNCHANGED <<indexVars, queueVars, takeVars, serverVars, countVars, lockVars,
                   restVars, relayPc, quit, sendReq, calls, accepted>>

NextRouter == RouterStep \/ ClientDisconnects

(***************************************************************************)
(* queueHandler, the relay between queueNotification (in) and              *)
(* notificationMsgs (out).                                                 *)
(***************************************************************************)
\* The histories trace the event notifications of the publishers.
Traced(n) == n.type \in {"blockConnected", "blockDisconnected", "mempoolTx"}

Record(h, n, e) == IF Traced(n) THEN Append(h, e) ELSE h

\* notificationHandler receives n from notificationMsgs.
RouterTakes(n, how) ==
    /\ routerPc = "select"
    /\ routerPc' = "busy"
    /\ routerMsg' = n
    /\ emitted' = Record(emitted, n, n)
    /\ path' = Record(path, n, how)

\* The inner select on an item just received: forward it when the queue is
\* empty and the reader is ready, else (default) append it.
InnerSelect_noDefault(n) ==
    /\ skipQueue
    /\ RouterTakes(n, "direct")
    /\ UNCHANGED queueVars

InnerSelect(n) ==
    \/ /\ skipQueue
       /\ RouterTakes(n, "direct")
       /\ UNCHANGED queueVars
    \/ /\ q' = Append(q, n)
       /\ dequeue' = TRUE
       /\ skipQueue' = FALSE
       /\ next' = q'[1]
       /\ UNCHANGED takeVars

\* case n, ok := <-in, for the sender s blocked on queueNotification
RelayIn(s) ==
    /\ relayPc = "running"
    /\ sendReq[s] # NoMsg
    /\ sendReq' = [sendReq EXCEPT ![s] = NoMsg]
    /\ accepted' = Record(accepted, sendReq[s], sendReq[s])
    /\ InnerSelect(sendReq[s])
    /\ UNCHANGED <<indexVars, obsVars, flagVars, serverVars, countVars, lockVars,
                   restVars, handled, relayPc, quit, calls>>

\* The queue after its head was sent.
Dequeued_staleNext(rest) ==
    /\ q' = rest
    /\ next' = next
    /\ dequeue' = (rest # << >>)
    /\ skipQueue' = (rest = << >>)

Dequeued(rest) ==
    /\ q' = rest
    /\ next' = IF rest = << >> THEN next ELSE rest[1]
    /\ dequeue' = (rest # << >>)
    /\ skipQueue' = (rest = << >>)

\* case dequeue <- next
RelayDequeue ==
    /\ relayPc = "running"
    /\ dequeue
    /\ RouterTakes(next, "queued")
    /\ Dequeued(Tail(q))
    /\ UNCHANGED <<indexVars, obsVars, flagVars, serverVars, countVars, lockVars,
                   restVars, handled, relayPc, quit, sendReq, calls, accepted>>

\* case <-quit, then close(out)
RelayQuit ==
    /\ relayPc = "running"
    /\ quit
    /\ relayPc' = "done"
    /\ UNCHANGED <<indexVars, obsVars, flagVars, queueVars, takeVars, serverVars,
                   countVars, lockVars, restVars, handled, quit, sendReq,
                   calls, accepted>>

\* Shutdown: close(m.quit)
Shutdown ==
    /\ ~quit
    /\ quit' = TRUE
    /\ UNCHANGED <<indexVars, obsVars, flagVars, queueVars, takeVars, serverVars,
                   countVars, lockVars, restVars, handled, relayPc, sendReq,
                   calls, accepted>>

(***************************************************************************)
(* The publishers: NotifyBlockConnected, NotifyBlockDisconnected,          *)
(* NotifyMempoolTx.                                                        *)
(***************************************************************************)
PublisherMsgs(p) ==
    IF p = "blockManager"
    THEN {Msg("blockConnected", NoClient, << >>, << >>, <<1>>, FALSE),
          Msg("blockDisconnected", NoClient, << >>, << >>, <<1>>, FALSE)}
    ELSE {Msg("mempoolTx", NoClient, << >>, << >>, <<1>>, TRUE)}

\* A publisher enters Notify* and blocks in its select.
NotifyCall(p) ==
    /\ calls < MaxSends
    /\ sendReq[p] = NoMsg
    /\ calls' = calls + 1
    /\ \E m \in PublisherMsgs(p) : sendReq' = [sendReq EXCEPT ![p] = m]
    /\ UNCHANGED <<indexVars, obsVars, flagVars, queueVars, takeVars, serverVars,
                   countVars, lockVars, restVars, handled, relayPc, quit,
                   accepted>>

\* case <-m.quit of a Notify* call
NotifyQuit(p) ==
    /\ sendReq[p] # NoMsg
    /\ quit
    /\ sendReq' = [sendReq EXCEPT ![p] = NoMsg]
    /\ UNCHANGED <<indexVars, obsVars, flagVars, queueVars, takeVars, serverVars,
                   countVars, lockVars, restVars, handled, relayPc, quit,
                   calls, accepted>>

(***************************************************************************)
(* notificationHandler's loop behind the relay.                            *)
(***************************************************************************)
\* The router handles the message it received and returns to its select.
RouterHandle ==
    /\ routerPc = "busy"
    /\ HandleMsg(routerMsg)
    /\ routerPc' = "select"
    /\ routerMsg' = NoMsg
    /\ nReg' = IF routerMsg.type = "registerClient" THEN nReg + 1 ELSE nReg
    /\ nUnreg' = IF routerMsg.type = "unregisterClient" THEN nUnreg + 1 ELSE nUnreg
    /\ UNCHANGED <<flagVars, queueVars, serverVars, lockVars, restVars,
                   handled, relayPc, quit, sendReq, calls, accepted, emitted, path>>

\* case <-m.quit, or notificationMsgs closed: leave the loop and disconnect
\* every client of the clients map.
RouterQuit ==
    /\ routerPc = "select"
    /\ quit \/ relayPc = "done"
    /\ routerPc' = "done"
    /\ DisconnectNow(clients)
    /\ UNCHANGED <<indexVars, obsVars, queueVars, serverVars, countVars, lockVars,
                   restVars, handled, relayPc, quit, sendReq, calls,
                   accepted, routerMsg, emitted, path>>

NextRelay ==
    \/ \E p \in Publishers : NotifyCall(p) \/ NotifyQuit(p) \/ RelayIn(p)
    \/ RelayDequeue
    \/ RelayQuit
    \/ Shutdown
    \/ RouterHandle
    \/ RouterQuit

(***************************************************************************)
(* WebsocketHandler, NumClients, AddClient, RemoveClient.                  *)
(***************************************************************************)
\* What the router offers on numClients.
NumClientsValue_countsSent ==
    Cardinality(clients \cup {h \in Conns : sendReq[h].type = "registerClient"})

NumClientsValue == Cardinality(clients)

\* The limit test of WebsocketHandler.
ExceedsMax_offByOne(n) == n > RPCMaxWebsockets

ExceedsMax(n) == n + 1 > RPCMaxWebsockets

\* Connections are named in the order the server is handed them.
Earlier(h) == {g \in Conns : \E i, j \in DOMAIN ConnNames :
                  /\ i < j
                  /\ g = ConnNames[i]
                  /\ h = ConnNames[j]}

\* A connection is handed to WebsocketHandler, which calls NumClients.
WsConnect(h) ==
    /\ wsPc[h] = "new"
    /\ \A g \in Earlier(h) : wsPc[g] # "new"
    /\ wsPc' = [wsPc EXCEPT ![h] = "numClients"]
    /\ UNCHANGED <<indexVars, obsVars, flagVars, queueVars, takeVars, countVars,
                   lockVars, restVars, handled, relayPc, quit, sendReq,
                   calls, accepted, seen>>

\* WebsocketHandler once NumClients returned n: over the limit it closes the
\* connection and returns, else it makes the client and AddClient blocks
\* sending registerClient.
LimitCheck(h, n) ==
    /\ seen' = [seen EXCEPT ![h] = n]
    /\ IF ExceedsMax(n)
       THEN /\ wsPc' = [wsPc EXCEPT ![h] = "refused"]
            /\ connCloses' = [connCloses EXCEPT ![h] = @ + 1]
            /\ UNCHANGED sendReq
       ELSE /\ wsPc' = [wsPc EXCEPT ![h] = "addClient"]
            /\ sendReq' = [sendReq EXCEPT ![h] = ClientMsg("registerClient", h)]
            /\ UNCHANGED connCloses
    /\ UNCHANGED <<indexVars, obsVars, queueVars, takeVars, countVars, lockVars,
                   restVars, handled, relayPc, quit, calls, accepted,
                   disconnected, quitCloses>>

\* NumClients: case n = <-m.numClients, the router being at its select
NumClientsRecv(h) ==
    /\ wsPc[h] = "numClients"
    /\ routerPc = "select"
    /\ LimitCheck(h, NumClientsValue)

\* NumClients: case <-m.quit, n stays 0
NumClientsQuit(h) ==
    /\ wsPc[h] = "numClients"
    /\ quit
    /\ LimitCheck(h, 0)

\* AddClient has returned: client.Start(), then WaitForShutdown.
WsStart(h) ==
    /\ wsPc[h] = "addClient"
    /\ sendReq[h] = NoMsg
    /\ wsPc' = [wsPc EXCEPT ![h] = "running"]
    /\ UNCHANGED <<indexVars, obsVars, flagVars, queueVars, takeVars, countVars,
                   lockVars, restVars, handled, relayPc, quit, sendReq,
                   calls, accepted, seen>>

\* One of the running client's tasks calls Disconnect.
WsClientDisconnects(h) ==
    /\ wsPc[h] = "running"
    /\ ~disconnected[h]
    /\ DisconnectNow({h})
    /\ UNCHANGED <<indexVars, obsVars, queueVars, takeVars, serverVars, countVars,
                   lockVars, restVars, handled, relayPc, quit, sendReq,
                   calls, accepted>>

\* The client's tasks have stopped: WaitForShutdown returns and RemoveClient
\* blocks in its select.
WsRemoveClient(h) ==
    /\ wsPc[h] = "running"
    /\ disconnected[h]
    /\ wsPc' = [wsPc EXCEPT ![h] = "removeClient"]
    /\ sendReq' = [sendReq EXCEPT ![h] = ClientMsg("unregisterClient", h)]
    /\ UNCHANGED <<indexVars, obsVars, flagVars, queueVars, takeVars, countVars,
                   lockVars, restVars, handled, relayPc, quit, calls,
                   accepted, seen>>

\* RemoveClient: case <-m.quit
RemoveClientQuit(h) ==
    /\ wsPc[h] = "removeClient"
    /\ sendReq[h] # NoMsg
    /\ quit
    /\ sendReq' = [sendReq EXCEPT ![h] = NoMsg]
    /\ UNCHANGED <<indexVars, obsVars, flagVars, queueVars, takeVars, serverVars,
                   countVars, lockVars, restVars, handled, relayPc, quit,
                   calls, accepted>>

\* RemoveClient has returned and WebsocketHandler with it.
WsDone(h) ==
    /\ wsPc[h] = "removeClient"
    /\ sendReq[h] = NoMsg
    /\ wsPc' = [wsPc EXCEPT ![h] = "done"]
    /\ UNCHANGED <<indexVars, obsVars, flagVars, queueVars, takeVars, countVars,
                   lockVars, restVars, handled, relayPc, quit, sendReq,
                   calls, accepted, seen>>

NextServer ==
    \/ \E h \in Conns :
          \/ WsConnect(h)
          \/ NumClientsRecv(h)
          \/ NumClientsQuit(h)
          \/ RelayIn(h)
          \/ WsStart(h)
          \/ WsClientDisconnects(h)
          \/ WsRemoveClient(h)
          \/ RemoveClientQuit(h)
          \/ WsDone(h)
    \/ RelayDequeue
    \/ RelayQuit
    \/ Shutdown
    \/ RouterHandle
    \/ RouterQuit

(***************************************************************************)
(* Disconnect step by step, called by the tasks of client c1.              *)
(***************************************************************************)
TheClient == "c1"

\* The test under the lock.
AlreadyDisconnected_unchecked(c) == FALSE

AlreadyDisconnected(c) == disconnected[c]

\* A task calls Disconnect and waits for the client's mutex.
DisconnectCall(t) ==
    /\ dPc[t] = "idle"
    /\ dCalls[t] < MaxDisconnects
    /\ dCalls' = [dCalls EXCEPT ![t] = @ + 1]
    /\ dPc' = [dPc EXCEPT ![t] = "lock"]
    /\ UNCHANGED <<indexVars, obsVars, flagVars, queueVars, takeVars, serverVars,
                   countVars, restVars, handled, relayPc, quit, sendReq,
                   calls, accepted, mutex>>

\* c.Lock()
DisconnectLock(t) ==
    /\ dPc[t] = "lock"
    /\ mutex = "free"
    /\ mutex' = t
    /\ dPc' = [dPc EXCEPT ![t] = "check"]
    /\ UNCHANGED <<indexVars, obsVars, flagVars, queueVars, takeVars, serverVars,
                   countVars, restVars, handled, relayPc, quit, sendReq,
                   calls, accepted, dCalls>>

\* if c.disconnected { return }
DisconnectCheck(t) ==
    /\ dPc[t] = "check"
    /\ dPc' = [dPc EXCEPT ![t] = IF AlreadyDisconnected(TheClient) THEN "unlock"
                                  ELSE "closeQuit"]
    /\ UNCHANGED <<indexVars, obsVars, flagVars, queueVars, takeVars, serverVars,
                   countVars, restVars, handled, relayPc, quit, sendReq,
                   calls, accepted, mutex, dCalls>>

\* close(c.quit)
DisconnectCloseQuit(t) ==
    /\ dPc[t] = "closeQuit"
    /\ quitCloses' = [quitCloses EXCEPT ![TheClient] = @ + 1]
    /\ dPc' = [dPc EXCEPT ![t] = "closeConn"]
    /\ UNCHANGED <<indexVars, obsVars, queueVars, takeVars, serverVars, countVars,
                   restVars, handled, relayPc, quit, sendReq, calls,
                   accepted, mutex, dCalls, disconnected, connCloses>>

\* c.conn.Close()
DisconnectCloseConn(t) ==
    /\ dPc[t] = "closeConn"
    /\ connCloses' = [connCloses EXCEPT ![TheClient] = @ + 1]
    /\ dPc' = [dPc EXCEPT ![t] = "setFlag"]
    /\ UNCHANGED <<indexVars, obsVars, queueVars, takeVars, serverVars, countVars,
                   restVars, handled, relayPc, quit, sendReq, calls,
                   accepted, mutex, dCalls, disconnected, quitCloses>>

\* c.disconnected = true
DisconnectSetFlag(t) ==
    /\ dPc[t] = "setFlag"
    /\ disconnected' = [disconnected EXCEPT ![TheClient] = TRUE]
    /\ dPc' = [dPc EXCEPT ![t] = "unlock"]
    /\ UNCHANGED <<indexVars, obsVars, queueVars, takeVars, serverVars, countVars,
                   restVars, handled, relayPc, quit, sendReq, calls,
                   accepted, mutex, dCalls, quitCloses, connCloses>>

\* the deferred c.Unlock()
DisconnectUnlock(t) ==
    /\ dPc[t] = "unlock"
    /\ mutex' = "free"
    /\ dPc' = [dPc EXCEPT ![t] = "idle"]
    /\ UNCHANGED <<indexVars, obsVars, flagVars, queueVars, takeVars, serverVars,
                   countVars, restVars, handled, relayPc, quit, sendReq,
                   calls, accepted, dCalls>>

NextClient ==
    \E t \in DiscCallers :
        \/ DisconnectCall(t)
        \/ DisconnectLock(t)
        \/ DisconnectCheck(t)
        \/ DisconnectCloseQuit(t)
        \/ DisconnectCloseConn(t)
        \/ DisconnectSetFlag(t)
        \/ DisconnectUnlock(t)

(***************************************************************************)
(* The reader of client c1: inHandler and handleMessage.                   *)
(***************************************************************************)
\* Most frames the reader reads.
MaxReads == 3

\* The methods of the frames: authenticate, a websocket handler that sends a
\* control message, the long-running one, a websocket handler that sends
\* none, and two standard commands.
Methods == {"authenticate", "notifyblocks", "rescan", "session", "getinfo", "stop"}

wsHandlers == {"notifyblocks", "rescan", "session"}

wsAsyncHandlers == {"rescan"}

\* The methods a limited user may call.
rpcLimited == {"notifyblocks", "rescan", "session", "getinfo"}

\* A frame: whether it unmarshals into a request, whether the request has an
\* id, its method, whether parseCmd accepts it, and for an accepted
\* authenticate the hash its credentials match.
Frames ==
    {[parses |-> FALSE, hasId |-> FALSE, method |-> "none", cmdOk |-> FALSE,
      creds |-> "none"]}
    \cup {r \in [parses : {TRUE}, hasId : BOOLEAN, method : Methods,
                 cmdOk : BOOLEAN, creds : {"admin", "limited", "bad", "none"}] :
             (r.method = "authenticate" /\ r.cmdOk) <=> (r.creds # "none")}

NoFrame == [parses |-> FALSE, hasId |-> FALSE, method |-> "nothing",
            cmdOk |-> FALSE, creds |-> "none"]

\* SendMessage as the reader uses it: nothing is sent once disconnected.
SendReply(r) ==
    replies' = IF Disconnected(TheClient) THEN replies ELSE Append(replies, r)

\* The unauthenticated client's frame is refused.
AuthFails_ignoresCredentials(m) ==
    \/ ~m.parses
    \/ ~m.cmdOk
    \/ m.method # "authenticate"

AuthFails(m) ==
    \/ ~m.parses
    \/ ~m.cmdOk
    \/ m.method # "authenticate"
    \/ m.creds \notin {"admin", "limited"}

\* handleMessage while !c.authenticated
handleUnauthenticated(m) ==
    IF AuthFails(m)
    THEN /\ DisconnectNow({TheClient})
         /\ UNCHANGED <<authenticated, isAdmin, replies, dispatched, ctl>>
    ELSE /\ authenticated' = TRUE
         /\ isAdmin' = (m.creds = "admin")
         /\ SendReply("authenticated")
         /\ UNCHANGED <<flagVars, dispatched, ctl>>

\* The limited user's method is refused.
Unauthorized_never(m) == FALSE

Unauthorized(m) == ~isAdmin /\ m.method \notin rpcLimited

\* What the handler of a method sends to the router.
HandlerCtl(method) ==
    IF method = "notifyblocks" THEN <<"registerBlocks">> ELSE << >>

\* request.ID == nil: a notification in the sense of JSON-RPC.
IsNotification_never(m) == FALSE

IsNotification(m) == ~m.hasId

\* A second authenticate reached the test for it.
SecondAuthenticate_ignored(m) == FALSE

SecondAuthenticate(m) == m.method = "authenticate"

\* handleMessage of an authenticated client
handleAuthenticated(m) ==
    IF ~m.parses
    THEN SendReply("parseError") /\ UNCHANGED <<flagVars, dispatched, ctl>>
    ELSE IF IsNotification(m)
    THEN UNCHANGED <<flagVars, replies, dispatched, ctl>>
    ELSE IF Unauthorized(m)
    THEN SendReply("invalidParams") /\ UNCHANGED <<flagVars, dispatched, ctl>>
    ELSE IF ~m.cmdOk
    THEN SendReply("cmdError") /\ UNCHANGED <<flagVars, dispatched, ctl>>
    ELSE IF SecondAuthenticate(m)
    THEN DisconnectNow({TheClient}) /\ UNCHANGED <<replies, dispatched, ctl>>
    ELSE IF m.method \in wsAsyncHandlers
    THEN /\ dispatched' = Append(dispatched, <<"async", m.method>>)
         /\ UNCHANGED <<flagVars, replies, ctl>>
    ELSE IF m.method \notin wsHandlers
    THEN /\ dispatched' = Append(dispatched, <<"standard", m.method>>)
         /\ SendReply("result")
         /\ UNCHANGED <<flagVars, ctl>>
    ELSE /\ dispatched' = Append(dispatched, <<"ws", m.method>>)
         /\ ctl' = ctl \o HandlerCtl(m.method)
         /\ SendReply("result")
         /\ UNCHANGED flagVars

otherButAuth == <<indexVars, obsVars, queueVars, takeVars, serverVars, countVars,
                  lockVars, verboseTxUpdates, pipeVars, extVars, handled, relayPc, quit,
                  sendReq, calls, accepted>>

\* newWebsocketClient with the flags of the HTTP authentication, and Start.
ClientStart(a, adm) ==
    /\ inPc = "new"
    /\ authenticated' = a
    /\ isAdmin' = (a /\ adm)
    /\ inPc' = "loop"
    /\ UNCHANGED <<otherButAuth, flagVars, inMsg, nRead, nPreAuth, replies,
                   dispatched, ctl>>

\* inHandler: the non-blocking test of quit at the top of the loop
InQuitCheck ==
    /\ inPc = "loop"
    /\ inPc' = IF disconnected[TheClient] THEN "exit" ELSE "read"
    /\ UNCHANGED <<otherButAuth, flagVars, authenticated, isAdmin, inMsg, nRead,
                   nPreAuth, replies, dispatched, ctl>>

\* c.conn.ReadMessage() returns a frame
InRead(m) ==
    /\ inPc = "read"
    /\ ~disconnected[TheClient]
    /\ nRead < MaxReads
    /\ nRead' = nRead + 1
    /\ inMsg' = m
    /\ inPc' = "handle"
    /\ UNCHANGED <<otherButAuth, flagVars, authenticated, isAdmin, nPreAuth,
                   replies, dispatched, ctl>>

\* c.conn.ReadMessage() returns an error: the peer left or the socket was
\* closed.
InReadFails ==
    /\ inPc = "read"
    /\ inPc' = "exit"
    /\ UNCHANGED <<otherButAuth, flagVars, authenticated, isAdmin, inMsg, nRead,
                   nPreAuth, replies, dispatched, ctl>>

\* c.handleMessage(msg)
InHandle ==
    /\ inPc = "handle"
    /\ inPc' = "loop"
    /\ IF authenticated
       THEN handleAuthenticated(inMsg) /\ UNCHANGED <<authenticated, isAdmin, nPreAuth>>
       ELSE handleUnauthenticated(inMsg) /\ nPreAuth' = nPreAuth + 1
    /\ UNCHANGED <<otherButAuth, inMsg, nRead>>

\* after the loop: c.Disconnect()
InExit ==
    /\ inPc = "exit"
    /\ inPc' = "done"
    /\ DisconnectNow({TheClient})
    /\ UNCHANGED <<otherButAuth, authenticated, isAdmin, inMsg, nRead, nPreAuth,
                   replies, dispatched, ctl>>

\* Another task of the client, or the router, calls Disconnect.
OtherDisconnects ==
    /\ inPc \notin {"new", "done"}
    /\ ~disconnected[TheClient]
    /\ DisconnectNow({TheClient})
    /\ UNCHANGED <<otherButAuth, authVars>>

NextReader ==
    \/ \E a, adm \in BOOLEAN : ClientStart(a, adm)
    \/ InQuitCheck
    \/ \E m \in Frames : InRead(m)
    \/ InReadFails
    \/ InHandle
    \/ InExit
    \/ OtherDisconnects

(***************************************************************************)
(* The outgoing side of client c1: QueueNotification and its callers,      *)
(* notificationQueueHandler, SendMessage, outHandler.  A notification is   *)
(* the number of the call that carries it; 0 on sendChan is a reply, which *)
(* has no doneChan.                                                        *)
(***************************************************************************)
\* The tasks that call QueueNotification on the client.
NtfnCallers == {"router", "rescan"}

\* Most QueueNotification calls, most SendMessage calls with a reply.
MaxNtfns == 3

MaxReplies == 1

\* Capacity of sendChan, of ntfnChan and of ntfnSentChan.
websocketSendBufferSize == 50

ntfnChanSize == 1

ntfnSentChanSize == 1

otherButPipe == <<indexVars, obsVars, queueVars, takeVars, serverVars, countVars,
                  lockVars, verboseTxUpdates, authVars, extVars, handled, relayPc, quit,
                  sendReq, calls, accepted>>

\* A caller enters QueueNotification.
QnCall(k) ==
    /\ qnPc[k] = "idle"
    /\ nQn < MaxNtfns
    /\ nQn' = nQn + 1
    /\ qnMsg' = [qnMsg EXCEPT ![k] = nQn + 1]
    /\ qnPc' = [qnPc EXCEPT ![k] = "check"]
    /\ UNCHANGED <<otherButPipe, flagVars, qnRes, nqVars, outVars, replyVars,
                   ntfnChan, ntfnSentChan, sendChan, enq, handed>>

\* The test of QueueNotification.
QnDisconnected_unchecked(c) == FALSE

QnDisconnected(c) == Disconnected(c)

\* if c.Disconnected() { return ErrClientQuit }
QnCheck(k) ==
    /\ qnPc[k] = "check"
    /\ IF QnDisconnected(TheClient)
       THEN /\ qnPc' = [qnPc EXCEPT ![k] = "idle"]
            /\ qnRes' = [qnRes EXCEPT ![k] = "ErrClientQuit"]
       ELSE /\ qnPc' = [qnPc EXCEPT ![k] = "send"]
            /\ UNCHANGED qnRes
    /\ UNCHANGED <<otherButPipe, flagVars, qnMsg, nQn, nqVars, outVars, replyVars,
                   ntfnChan, ntfnSentChan, sendChan, enq, handed>>

\* c.ntfnChan <- marshalledJSON; return nil
QnSend(k) ==
    /\ qnPc[k] = "send"
    /\ Len(ntfnChan) < ntfnChanSize
    /\ ntfnChan' = Append(ntfnChan, qnMsg[k])
    /\ enq' = Append(enq, qnMsg[k])
    /\ qnPc' = [qnPc EXCEPT ![k] = "idle"]
    /\ qnRes' = [qnRes EXCEPT ![k] = "nil"]
    /\ UNCHANGED <<otherButPipe, flagVars, qnMsg, nQn, nqVars, outVars, replyVars,
                   ntfnSentChan, sendChan, handed>>

\* notificationQueueHandler calls SendMessage(msg, ntfnSentChan) having taken
\* `taken` items off ntfnSentChan: a disconnected client gets false on the
\* done channel, else the handler goes on to the send on sendChan.
NqSendMessage(msg, rest) ==
    IF Disconnected(TheClient)
    THEN /\ Len(rest) < ntfnSentChanSize
         /\ ntfnSentChan' = Append(rest, FALSE)
         /\ UNCHANGED <<nqPc, nqMsg>>
    ELSE /\ nqPc' = "put"
         /\ nqMsg' = msg
         /\ ntfnSentChan' = rest

SendsAtOnce_always(w) == TRUE

\* if !waiting
SendsAtOnce(w) == ~w

\* case msg := <-c.ntfnChan
NqRecv ==
    /\ nqPc = "select"
    /\ ntfnChan # << >>
    /\ ntfnChan' = Tail(ntfnChan)
    /\ waiting' = TRUE
    /\ IF SendsAtOnce(waiting)
       THEN NqSendMessage(Head(ntfnChan), ntfnSentChan) /\ UNCHANGED pendingNtfns
       ELSE /\ pendingNtfns' = Append(pendingNtfns, Head(ntfnChan))
            /\ UNCHANGED <<nqPc, nqMsg, ntfnSentChan>>
    /\ UNCHANGED <<otherButPipe, flagVars, callerVars, outVars, replyVars,
                   sendChan, enq, handed>>

\* pendingNtfns.Front()
NextPending_back(p) == p[Len(p)]

NextPending(p) == Head(p)

\* case <-ntfnSentChan
NqSent ==
    /\ nqPc = "select"
    /\ ntfnSentChan # << >>
    /\ IF pendingNtfns = << >>
       THEN /\ waiting' = FALSE
            /\ ntfnSentChan' = Tail(ntfnSentChan)
            /\ UNCHANGED <<nqPc, nqMsg, pendingNtfns>>
       ELSE /\ pendingNtfns' = Tail(pendingNtfns)
            /\ NqSendMessage(NextPending(pendingNtfns), Tail(ntfnSentChan))
            /\ UNCHANGED waiting
    /\ UNCHANGED <<otherButPipe, flagVars, callerVars, outVars, replyVars,
                   ntfnChan, sendChan, enq, handed>>

\* SendMessage of the handler: c.sendChan <- wsResponse{msg, ntfnSentChan}
NqPut ==
    /\ nqPc = "put"
    /\ Len(sendChan) < websocketSendBufferSize
    /\ sendChan' = Append(sendChan, nqMsg)
    /\ handed' = Append(handed, nqMsg)
    /\ nqPc' = "select"
    /\ nqMsg' = 0
    /\ UNCHANGED <<otherButPipe, flagVars, callerVars, outVars, replyVars,
                   ntfnChan, ntfnSentChan, pendingNtfns, waiting, enq>>

\* case <-c.quit
NqQuit ==
    /\ nqPc = "select"
    /\ quitCloses[TheClient] > 0
    /\ nqPc' = "cleanup"
    /\ UNCHANGED <<otherButPipe, flagVars, callerVars, outVars, replyVars,
                   ntfnChan, ntfnSentChan, sendChan, nqMsg, pendingNtfns,
                   waiting, enq, handed>>

\* cleanup: case <-c.ntfnChan, case <-ntfnSentChan
NqDrain ==
    /\ nqPc = "cleanup"
    /\ \/ /\ ntfnChan # << >>
          /\ ntfnChan' = Tail(ntfnChan)
          /\ UNCHANGED ntfnSentChan
       \/ /\ ntfnSentChan # << >>
          /\ ntfnSentChan' = Tail(ntfnSentChan)
          /\ UNCHANGED ntfnChan
    /\ UNCHANGED <<otherButPipe, flagVars, callerVars, outVars, replyVars,
                   sendChan, nqVars, enq, handed>>

\* cleanup: default, then c.wg.Done()
NqDone ==
    /\ nqPc = "cleanup"
    /\ ntfnChan = << >>
    /\ ntfnSentChan = << >>
    /\ nqPc' = "done"
    /\ UNCHANGED <<otherButPipe, flagVars, callerVars, outVars, replyVars,
                   ntfnChan, ntfnSentChan, sendChan, nqMsg, pendingNtfns,
                   waiting, enq, handed>>

(***************************************************************************)
(* outHandler.                                                             *)
(***************************************************************************)
\* What outHandler does with the doneChan of a response: r.doneChan <- ok
\* for a notification, nothing for a reply.
SignalDone(r, ok) ==
    IF r = 0 THEN UNCHANGED ntfnSentChan
    ELSE /\ Len(ntfnSentChan) < ntfnSentChanSize
         /\ ntfnSentChan' = Append(ntfnSentChan, ok)

\* case r := <-c.sendChan
OutRecv ==
    /\ outPc = "select"
    /\ sendChan # << >>
    /\ sendChan' = Tail(sendChan)
    /\ outMsg' = Head(sendChan)
    /\ outPc' = "write"
    /\ UNCHANGED <<otherButPipe, flagVars, callerVars, nqVars, replyVars, ntfnChan,
                   ntfnSentChan, enq, handed, written>>

\* c.conn.WriteMessage succeeds, then r.doneChan <- true
OutWrite ==
    /\ outPc = "write"
    /\ connCloses[TheClient] = 0
    /\ written' = IF outMsg = 0 THEN written ELSE Append(written, outMsg)
    /\ SignalDone(outMsg, TRUE)
    /\ outPc' = "select"
    /\ outMsg' = 0
    /\ UNCHANGED <<otherButPipe, flagVars, callerVars, nqVars, replyVars, ntfnChan,
                   sendChan, enq, handed>>

\* c.conn.WriteMessage fails: c.Disconnect() and leave the loop
OutWriteFails ==
    /\ outPc = "write"
    /\ DisconnectNow({TheClient})
    /\ outPc' = "cleanup"
    /\ outMsg' = 0
    /\ UNCHANGED <<otherButPipe, callerVars, nqVars, replyVars, ntfnChan,
                   ntfnSentChan, sendChan, enq, handed, written>>

\* case <-c.quit
OutQuit ==
    /\ outPc = "select"
    /\ quitCloses[TheClient] > 0
    /\ outPc' = "cleanup"
    /\ UNCHANGED <<otherButPipe, flagVars, callerVars, nqVars, replyVars, ntfnChan,
                   ntfnSentChan, sendChan, enq, handed, outMsg, written>>

\* cleanup: case r := <-c.sendChan, r.doneChan <- false
OutDrain ==
    /\ outPc = "cleanup"
    /\ sendChan # << >>
    /\ sendChan' = Tail(sendChan)
    /\ SignalDone(Head(sendChan), FALSE)
    /\ UNCHANGED <<otherButPipe, flagVars, callerVars, nqVars, replyVars, ntfnChan,
                   enq, handed, outVars>>

\* cleanup: default, then c.wg.Done()
OutDone ==
    /\ outPc = "cleanup"
    /\ sendChan = << >>
    /\ outPc' = "done"
    /\ UNCHANGED <<otherButPipe, flagVars, callerVars, nqVars, replyVars, ntfnChan,
                   ntfnSentChan, sendChan, enq, handed, outMsg, written>>

(***************************************************************************)
(* SendMessage(reply, nil) by the reader or by a handler.                  *)
(***************************************************************************)
ReplyCall ==
    /\ rdPc = "idle"
    /\ nReplies < MaxReplies
    /\ nReplies' = nReplies + 1
    /\ rdPc' = "check"
    /\ UNCHANGED <<otherButPipe, flagVars, callerVars, nqVars, outVars, ntfnChan,
                   ntfnSentChan, sendChan, enq, handed>>

\* if c.Disconnected() { return }
ReplyCheck ==
    /\ rdPc = "check"
    /\ rdPc' = IF Disconnected(TheClient) THEN "idle" ELSE "put"
    /\ UNCHANGED <<otherButPipe, flagVars, callerVars, nqVars, outVars, ntfnChan,
                   ntfnSentChan, sendChan, enq, handed, nReplies>>

\* c.sendChan <- wsResponse{msg, nil}
ReplyPut ==
    /\ rdPc = "put"
    /\ Len(sendChan) < websocketSendBufferSize
    /\ sendChan' = Append(sendChan, 0)
    /\ rdPc' = "idle"
    /\ UNCHANGED <<otherButPipe, flagVars, callerVars, nqVars, outVars, ntfnChan,
                   ntfnSentChan, enq, handed, nReplies>>

\* The reader, or the router at its shutdown, calls Disconnect.
PipeDisconnect ==
    /\ ~disconnected[TheClient]
    /\ DisconnectNow({TheClient})
    /\ UNCHANGED <<otherButPipe, pipeVars>>

NextPipe ==
    \/ \E k \in NtfnCallers : QnCall(k) \/ QnCheck(k) \/ QnSend(k)
    \/ NqRecv
    \/ NqSent
    \/ NqPut
    \/ NqQuit
    \/ NqDrain
    \/ NqDone
    \/ OutRecv
    \/ OutWrite
    \/ OutWriteFails
    \/ OutQuit
    \/ OutDrain
    \/ OutDone
    \/ ReplyCall
    \/ ReplyCheck
    \/ ReplyPut
    \/ PipeDisconnect

(***************************************************************************)
(* A register message followed by its unregister message, and an           *)
(* unregister message on its own, after any messages.                      *)
(***************************************************************************)
\* Most messages handled before the pair.
MaxPrior == 2

\* The register message of each subscription kind with its unregister.
Pairs ==
    UNION {
        {<<ClientMsg("registerBlocks", c), ClientMsg("unregisterBlocks", c)>>,
         <<ClientMsg("registerNewMempoolTxs", c),
           ClientMsg("unregisterNewMempoolTxs", c)>>}
        \cup {<<Msg("registerSpent", c, <<o>>, << >>, << >>, FALSE),
                Msg("unregisterSpent", c, <<o>>, << >>, << >>, FALSE)>> :
                 o \in OutPoints}
        \cup {<<Msg("registerAddr", c, << >>, <<a>>, << >>, FALSE),
                Msg("unregisterAddr", c, << >>, <<a>>, << >>, FALSE)>> :
                 a \in Addrs} : c \in Clients}

otherButIndex == <<flagVars, queueVars, takeVars, serverVars, countVars, lockVars,
                   verboseTxUpdates, authVars, pipeVars, handled, relayPc,
                   quit, sendReq, calls, accepted>>

\* Any message, or a client disconnecting, before the pair.
PriorStep ==
    /\ undoPc = "prior"
    /\ handled < MaxPrior
    /\ RouterStep \/ ClientDisconnects

\* notificationHandler handles the register message of a pair.
RegisterStep(pair) ==
    /\ undoPc = "prior"
    /\ undoPc' = "registered"
    /\ undoMsg' = pair[2]
    /\ snap' = indexVars
    /\ HandleMsg(pair[1])
    /\ UNCHANGED <<otherButIndex, fanVars, asyncVars, rescanVars, subVars>>

\* notificationHandler then handles the unregister message of the pair.
UnregisterStep ==
    /\ undoPc = "registered"
    /\ undoPc' = "undone"
    /\ HandleMsg(undoMsg)
    /\ UNCHANGED <<otherButIndex, undoMsg, snap, fanVars, asyncVars, rescanVars,
                   subVars>>

\* notificationHandler handles an unregister message that no register
\* message went before.
LoneUnregister(pair) ==
    /\ undoPc = "prior"
    /\ undoPc' = "alone"
    /\ undoMsg' = pair[2]
    /\ snap' = indexVars
    /\ HandleMsg(pair[2])
    /\ UNCHANGED <<otherButIndex, fanVars, asyncVars, rescanVars, subVars>>

NextUndo ==
    \/ PriorStep
    \/ \E pair \in Pairs : RegisterStep(pair) \/ LoneUnregister(pair)
    \/ UnregisterStep

(***************************************************************************)
(* notifyForNewTx when the verbose form of the transaction cannot be       *)
(* built or marshalled.                                                    *)
(***************************************************************************)
\* The orders in which a range over the map cs can visit its clients.
Orders(cs) == {o \in [1..Cardinality(cs) -> cs] : IsInjective(o)}

\* The loop of notifyForNewTx over its clients in the given order, when
\* createTxRawResult or MarshalCmd fails for the verbose form.
RECURSIVE VerboseFailure(_, _, _)
VerboseFailure(st, order, h) ==
    IF order = << >> THEN st
    ELSE IF verboseTxUpdates[Head(order)] THEN st
    ELSE VerboseFailure(QueueNotification(st, Head(order), Ntfn("txaccepted", h, NoBlock)),
                        Tail(order), h)

\* handleNotifyNewTransactions, and the router handling its message.
NotifyNewTransactions(c, verbose) ==
    /\ fanPc = "prior"
    /\ verboseTxUpdates' = [verboseTxUpdates EXCEPT ![c] = verbose]
    /\ HandleMsg(ClientMsg("registerNewMempoolTxs", c))
    /\ UNCHANGED <<flagVars, queueVars, takeVars, serverVars, countVars, lockVars,
                   authVars, pipeVars, extVars, handled, relayPc, quit, sendReq,
                   calls, accepted>>

\* Any message, or a client disconnecting, before the transaction.
FanPrior ==
    /\ fanPc = "prior"
    /\ PriorStep

\* notificationHandler handles a new mempool transaction whose verbose form
\* fails.
TxAcceptedVerboseFails(h, order) ==
    /\ fanPc = "prior"
    /\ fanPc' = "failed"
    /\ fanOrder' = order
    /\ LET n == Msg("mempoolTx", NoClient, << >>, << >>, <<h>>, TRUE)
           s1 == IF txNotifications # {}
                 THEN VerboseFailure(CurSt, order, h)
                 ELSE CurSt
       IN Commit(notifyForTx(s1, h, NoBlock), n)
    /\ UNCHANGED <<clients, blockNotifications, txNotifications, otherButIndex,
                   undoVars, asyncVars, rescanVars, subVars>>

\* notificationHandler handles a mempool transaction whose notifications
\* can all be built.
TxAccepted(h, isNew) ==
    /\ fanPc = "prior"
    /\ fanPc' = "done"
    /\ HandleMsg(Msg("mempoolTx", NoClient, << >>, << >>, <<h>>, isNew))
    /\ UNCHANGED <<flagVars, queueVars, takeVars, serverVars, countVars, lockVars,
                   verboseTxUpdates, authVars, pipeVars, undoVars, asyncVars,
                   rescanVars, subVars, fanOrder, handled, relayPc, quit, sendReq, calls,
                   accepted>>

NextFanout ==
    \/ FanPrior
    \/ \E c \in Clients : \E verbose \in BOOLEAN : NotifyNewTransactions(c, verbose)
    \/ \E h \in TxHashes : \E order \in Orders(txNotifications) :
          TxAcceptedVerboseFails(h, order)
    \/ \E h \in TxHashes : \E isNew \in BOOLEAN : TxAccepted(h, isNew)

(***************************************************************************)
(* asyncHandler and the handlers it runs.                                  *)
(***************************************************************************)
\* Most long-running commands one client sends.
MaxCmds == 3

\* Capacity of asyncChan and of asyncHandlerDoneChan.
asyncChanSize == 1

asyncHandlerDoneChanSize == 1

otherButAsync == <<indexVars, obsVars, queueVars, takeVars, serverVars, countVars,
                   lockVars, verboseTxUpdates, authVars, undoVars, fanVars,
                   rescanVars, subVars, handled, relayPc, quit, sendReq, calls,
                   accepted>>

\* handleMessage: a command of wsAsyncHandlers; asyncHandler is started for
\* the first one.
AsDispatch ==
    /\ rdrPc = "idle"
    /\ ~disconnected[TheClient]
    /\ nCmds < MaxCmds
    /\ nCmds' = nCmds + 1
    /\ rdrCmd' = nCmds + 1
    /\ rdrPc' = "send"
    /\ asPc' = IF asPc = "notStarted" THEN "select" ELSE asPc
    /\ UNCHANGED <<otherButAsync, flagVars, pipeVars, asyncChan, pendingCmds,
                   asWaiting, asyncHandlerDoneChan, hPc, asReceived, asStarted>>

\* c.asyncChan <- cmd
AsSend ==
    /\ rdrPc = "send"
    /\ Len(asyncChan) < asyncChanSize
    /\ asyncChan' = Append(asyncChan, rdrCmd)
    /\ asReceived' = Append(asReceived, rdrCmd)
    /\ rdrPc' = "idle"
    /\ UNCHANGED <<otherButAsync, flagVars, pipeVars, rdrCmd, nCmds, asPc,
                   pendingCmds, asWaiting, asyncHandlerDoneChan, hPc, asStarted>>

\* c.wg.Add(1); go func(cmd) { runHandler(cmd); ... }(cmd)
StartHandler(cmd) ==
    /\ hPc' = [hPc EXCEPT ![cmd] = "run"]
    /\ asStarted' = Append(asStarted, cmd)

\* The test of the waiting flag when a command arrives.
RunsAtOnce_always(w) == TRUE

RunsAtOnce(w) == ~w

\* case cmd := <-c.asyncChan
AsRecv ==
    /\ asPc = "select"
    /\ asyncChan # << >>
    /\ asyncChan' = Tail(asyncChan)
    /\ IF RunsAtOnce(asWaiting)
       THEN StartHandler(Head(asyncChan)) /\ UNCHANGED pendingCmds
       ELSE /\ pendingCmds' = Append(pendingCmds, Head(asyncChan))
            /\ UNCHANGED <<hPc, asStarted>>
    /\ asWaiting' = TRUE
    /\ UNCHANGED <<otherButAsync, flagVars, pipeVars, rdrPc, rdrCmd, nCmds, asPc,
                   asyncHandlerDoneChan, asReceived>>

\* case <-asyncHandlerDoneChan
AsDone ==
    /\ asPc = "select"
    /\ asyncHandlerDoneChan > 0
    /\ asyncHandlerDoneChan' = asyncHandlerDoneChan - 1
    /\ IF pendingCmds = << >>
       THEN /\ asWaiting' = FALSE
            /\ UNCHANGED <<pendingCmds, hPc, asStarted>>
       ELSE /\ StartHandler(Head(pendingCmds))
            /\ pendingCmds' = Tail(pendingCmds)
            /\ UNCHANGED asWaiting
    /\ UNCHANGED <<otherButAsync, flagVars, pipeVars, rdrPc, rdrCmd, nCmds, asPc,
                   asyncChan, asReceived>>

\* case <-c.quit
AsQuit ==
    /\ asPc = "select"
    /\ quitCloses[TheClient] > 0
    /\ asPc' = "cleanup"
    /\ UNCHANGED <<otherButAsync, flagVars, pipeVars, rdrPc, rdrCmd, nCmds,
                   asyncChan, pendingCmds, asWaiting, asyncHandlerDoneChan, hPc,
                   asReceived, asStarted>>

\* cleanup: case <-c.asyncChan, case <-asyncHandlerDoneChan
AsDrain ==
    /\ asPc = "cleanup"
    /\ \/ /\ asyncChan # << >>
          /\ asyncChan' = Tail(asyncChan)
          /\ UNCHANGED asyncHandlerDoneChan
       \/ /\ asyncHandlerDoneChan > 0
          /\ asyncHandlerDoneChan' = asyncHandlerDoneChan - 1
          /\ UNCHANGED asyncChan
    /\ UNCHANGED <<otherButAsync, flagVars, pipeVars, rdrPc, rdrCmd, nCmds, asPc,
                   pendingCmds, asWaiting, hPc, asReceived, asStarted>>

\* cleanup: default, then c.wg.Done()
AsExit ==
    /\ asPc = "cleanup"
    /\ asyncChan = << >>
    /\ asyncHandlerDoneChan = 0
    /\ asPc' = "done"
    /\ UNCHANGED <<otherButAsync, flagVars, pipeVars, rdrPc, rdrCmd, nCmds,
                   asyncChan, pendingCmds, asWaiting, asyncHandlerDoneChan, hPc,
                   asReceived, asStarted>>

\* runHandler: the handler returns (a result or an error) while no
\* QueueNotification call of its is in progress, and its reply is given to
\* SendMessage.
HandlerReturns(cmd) ==
    /\ hPc[cmd] = "run"
    /\ qnPc["rescan"] = "idle"
    /\ hPc' = [hPc EXCEPT ![cmd] = "signal"]
    /\ sendChan' = IF Disconnected(TheClient) THEN sendChan ELSE Append(sendChan, 0)
    /\ UNCHANGED <<otherButAsync, flagVars, callerVars, nqVars, outVars, replyVars,
                   ntfnChan, ntfnSentChan, enq, handed, rdrPc, rdrCmd, nCmds,
                   asyncChan, asPc, pendingCmds, asWaiting, asyncHandlerDoneChan,
                   asReceived, asStarted>>

\* asyncHandlerDoneChan <- struct{}{}; c.wg.Done()
HandlerSignals(cmd) ==
    /\ hPc[cmd] = "signal"
    /\ asyncHandlerDoneChan < asyncHandlerDoneChanSize
    /\ asyncHandlerDoneChan' = asyncHandlerDoneChan + 1
    /\ hPc' = [hPc EXCEPT ![cmd] = "finished"]
    /\ UNCHANGED <<otherButAsync, flagVars, pipeVars, rdrPc, rdrCmd, nCmds,
                   asyncChan, asPc, pendingCmds, asWaiting, asReceived, asStarted>>

NextAsync ==
    \/ AsDispatch
    \/ AsSend
    \/ AsRecv
    \/ AsDone
    \/ AsQuit
    \/ AsDrain
    \/ AsExit
    \/ \E cmd \in 1..MaxCmds : HandlerReturns(cmd) \/ HandlerSignals(cmd)
    \/ PipeDisconnect

\* The running handler (rescan) calls QueueNotification.
HandlerNotifies ==
    /\ \E cmd \in 1..MaxCmds : hPc[cmd] = "run"
    /\ QnCall("rescan")

\* The router calls QueueNotification for the client.
RouterNotifies == QnCall("router")

NextAsyncPipe ==
    \/ NextAsync
    \/ HandlerNotifies
    \/ RouterNotifies
    \/ \E k \in NtfnCallers : QnCheck(k) \/ QnSend(k)
    \/ NqRecv
    \/ NqPut
    \/ NqQuit
    \/ NqDrain
    \/ NqDone

(***************************************************************************)
(* handleRescan against the block store.  The store keeps the best chain;  *)
(* the block manager connects blocks and reorganizes the chain one block   *)
(* at a time, and each read of the store sees the chain as it is at that   *)
(* moment.  A block that left the best chain is no longer in the store.    *)
(***************************************************************************)
\* New blocks the block manager may make.
MaxHashes == 6

\* Progress notifications the ticker may cause.
MaxProgress == 1

\* database.AllShas: no upper bound on the height.
AllShas == 2147483647

otherButScan == <<indexVars, obsVars, queueVars, takeVars, serverVars, countVars,
                  lockVars, flagVars, verboseTxUpdates, authVars, pipeVars,
                  undoVars, fanVars, asyncVars, handled, relayPc, quit,
                  sendReq, calls, accepted, storeVars, rsVars, reorgedOut,
                  subVars>>

otherButRescan == <<indexVars, obsVars, queueVars, takeVars, serverVars, countVars,
                    lockVars, flagVars, verboseTxUpdates, authVars, pipeVars,
                    undoVars, fanVars, asyncVars, handled, relayPc, quit,
                    sendReq, calls, accepted, scanVars, subVars>>

HashesOf(s) == {s[i] : i \in DOMAIN s}

\* db.NewestSha: the hash of the best block.
NewestSha == chain[Len(chain)]

\* db.FetchBlockBySha succeeds for the blocks of the best chain.
ExistsSha(h) == h \in HashesOf(chain)

\* db.FetchBlockHeightBySha.
FetchBlockHeightBySha(h) == (CHOOSE i \in DOMAIN chain : chain[i] = h) - 1

\* db.FetchHeightRange: the hashes at the heights lo .. hi-1 of the best
\* chain, or any shorter window that starts at lo.
FetchHeightRange(lo, hi) ==
    LET top == IF hi < Len(chain) THEN hi ELSE Len(chain) IN
    IF lo >= top THEN {<< >>}
    ELSE {[i \in 1..n |-> chain[lo + i]] : n \in 1..(top - lo)}

\* New hashes left for the block manager.
HashesLeft == MaxHashes + 1 - nextHash

\* The block manager connects a block to the tip and notifies of it.
BmConnect ==
    /\ bmPc = "idle"
    /\ ~paused
    /\ HashesLeft >= 1
    /\ chain' = Append(chain, nextHash)
    /\ prevOf' = MapPut(prevOf, nextHash, NewestSha)
    /\ nextHash' = nextHash + 1
    /\ rsLog' = Append(rsLog, <<"conn", nextHash>>)
    /\ UNCHANGED <<otherButRescan, rsVars, bmPc, origLen, paused, reorgedOut>>

\* A reorganize disconnects the blocks of the old branch from the tip down.
BmDetach ==
    /\ bmPc \in {"idle", "detach"}
    /\ ~paused
    /\ Len(chain) >= 2
    /\ LET from == IF bmPc = "idle" THEN Len(chain) ELSE origLen IN
       /\ HashesLeft >= from + 2 - Len(chain)
       /\ origLen' = from
    /\ bmPc' = "detach"
    /\ chain' = SubSeq(chain, 1, Len(chain) - 1)
    /\ reorgedOut' = (reorgedOut \/ (/\ rsPc \notin {"idle", "finish", "done"}
                                     /\ \E i \in DOMAIN scanned :
                                           scanned[i].hash = NewestSha))
    /\ UNCHANGED <<otherButRescan, rsVars, prevOf, nextHash, paused, rsLog>>

\* and connects the blocks of the new branch, which ends up longer.
BmAttach ==
    /\ bmPc \in {"detach", "attach"}
    /\ chain' = Append(chain, nextHash)
    /\ prevOf' = MapPut(prevOf, nextHash, NewestSha)
    /\ nextHash' = nextHash + 1
    /\ rsLog' = Append(rsLog, <<"conn", nextHash>>)
    /\ bmPc' = IF Len(chain) + 1 > origLen THEN "idle" ELSE "attach"
    /\ UNCHANGED <<otherButRescan, rsVars, origLen, paused, reorgedOut>>

\* The block has a transaction that pays to an address of the request.
Matching(h) == h % 2 = 0

\* The block has a transaction that spends an outpoint of the request.
Redeeming(h) == h % 3 = 0

QueueRs_front(n) == IF Disconnected(TheClient) THEN rsOut ELSE <<n>> \o rsOut

\* wsc.QueueNotification as handleRescan sees it: ErrClientQuit and nothing
\* queued once the client is disconnected.
QueueRs(n) == IF Disconnected(TheClient) THEN rsOut ELSE Append(rsOut, n)

\* A return of the handler.
RsReturn(res) ==
    /\ rsPc' = "done"
    /\ rsResult' = res

\* handleRescan up to the loop: the heights of the begin and end blocks.
RsStart(begin, end) ==
    /\ rsPc = "idle"
    /\ ExistsSha(begin)
    /\ end = 0 \/ ExistsSha(end)
    /\ rsBegin' = begin
    /\ rsEnd' = end
    /\ minBlock' = FetchBlockHeightBySha(begin)
    /\ maxBlock' = IF end = 0 THEN AllShas ELSE FetchBlockHeightBySha(end)
    /\ rsPc' = "fetchRange"
    /\ UNCHANGED <<otherButRescan, storeVars, reorgedOut, hashList, rsI,
                   lastBlockHash, rsResult, rsOut, scanned, nProgress, registered>>

\* for minBlock < maxBlock { hashList := db.FetchHeightRange(...) ... }
RsFetchRange ==
    /\ rsPc = "fetchRange"
    /\ IF minBlock < maxBlock
       THEN \E w \in FetchHeightRange(minBlock, maxBlock) :
               /\ hashList' = w
               /\ rsI' = 1
               /\ rsPc' = IF Len(w) > 0 THEN "fetchBlock"
                          ELSE IF maxBlock # AllShas THEN "finish" ELSE "pause"
       ELSE /\ rsPc' = "finish"
            /\ UNCHANGED <<hashList, rsI>>
    /\ UNCHANGED <<otherButRescan, storeVars, reorgedOut, rsBegin, rsEnd, minBlock,
                   maxBlock, lastBlockHash, rsResult, rsOut, scanned, nProgress,
                   registered>>

\* blockManager.Pause(): granted by the block manager between two of its
\* jobs, and it then waits for the guard to be closed.
RsPause ==
    /\ rsPc = "pause"
    /\ bmPc = "idle"
    /\ paused' = TRUE
    /\ rsPc' = "underPause"
    /\ UNCHANGED <<otherButRescan, chain, prevOf, nextHash, bmPc, origLen, rsLog,
                   reorgedOut, rsBegin, rsEnd, minBlock, maxBlock, hashList, rsI,
                   lastBlockHash, rsResult, rsOut, scanned, nProgress, registered>>

\* lastBlockHash == nil || *lastBlockHash == *curHash
RegistersUnderPause(last, cur) == last = 0 \/ last = cur

\* The best hash is compared under the pause, the client is registered for
\* the live notifications, and the guard is closed.
RsUnderPause ==
    /\ rsPc = "underPause"
    /\ paused' = FALSE
    /\ IF RegistersUnderPause(lastBlockHash, NewestSha)
       THEN /\ registered' = TRUE
            /\ rsLog' = Append(rsLog, <<"reg", 0>>)
            /\ rsPc' = "finish"
       ELSE /\ rsPc' = "fetchRange"
            /\ UNCHANGED <<registered, rsLog>>
    /\ UNCHANGED <<otherButRescan, chain, prevOf, nextHash, bmPc, origLen,
                   reorgedOut, rsBegin, rsEnd, minBlock, maxBlock, hashList, rsI,
                   lastBlockHash, rsResult, rsOut, scanned, nProgress>>

descendantBlock_any(prev, cur) == TRUE

\* descendantBlock: the block's previous hash is the last scanned hash.
descendantBlock(prev, cur) == prevOf[cur] = prev

RecoverFrom_same(lo, i) == lo

\* minBlock += int32(i), i counted from 0.
RecoverFrom(lo, i) == lo + (i - 1)

\* One turn of the loop over hashList.
RsFetchBlock ==
    /\ rsPc = "fetchBlock"
    /\ LET h == hashList[rsI] IN
       IF ~ExistsSha(h)
       THEN \* ErrBlockShaMissing
            IF maxBlock # AllShas
            THEN /\ RsReturn("Reorganize")
                 /\ UNCHANGED <<minBlock, hashList, rsI, lastBlockHash, rsOut,
                                scanned, nProgress>>
            ELSE /\ minBlock' = RecoverFrom(minBlock, rsI)
                 /\ rsPc' = "recover"
                 /\ UNCHANGED <<hashList, rsI, lastBlockHash, rsResult, rsOut,
                                scanned, nProgress>>
       ELSE IF rsI = 1 /\ lastBlockHash # 0 /\ ~descendantBlock(lastBlockHash, h)
       THEN /\ RsReturn("Reorganize")
            /\ UNCHANGED <<minBlock, hashList, rsI, lastBlockHash, rsOut,
                           scanned, nProgress>>
       ELSE IF Disconnected(TheClient)
       THEN \* case <-wsc.quit
            /\ RsReturn("null")
            /\ UNCHANGED <<minBlock, hashList, rsI, lastBlockHash, rsOut,
                           scanned, nProgress>>
       ELSE \E tick \in BOOLEAN :
            /\ tick => nProgress < MaxProgress
            /\ nProgress' = IF tick THEN nProgress + 1 ELSE nProgress
            /\ scanned' = Append(scanned, [height |-> minBlock + (rsI - 1), hash |-> h])
            /\ lastBlockHash' = h
            /\ rsOut' = rsOut \o (IF Redeeming(h) THEN << <<"redeemingtx", h>> >> ELSE << >>)
                              \o (IF Matching(h) THEN << <<"recvtx", h>> >> ELSE << >>)
                              \o (IF tick THEN << <<"rescanprogress", h>> >> ELSE << >>)
            /\ IF rsI < Len(hashList)
               THEN /\ rsI' = rsI + 1
                    /\ UNCHANGED <<rsPc, minBlock>>
               ELSE /\ minBlock' = minBlock + Len(hashList)
                    /\ rsPc' = "fetchRange"
                    /\ UNCHANGED rsI
            /\ UNCHANGED <<hashList, rsResult>>
    /\ UNCHANGED <<otherButRescan, storeVars, reorgedOut, rsBegin, rsEnd, maxBlock,
                   registered>>

\* recoverFromReorg: the new window.
RsRecover ==
    /\ rsPc = "recover"
    /\ \E w \in FetchHeightRange(minBlock, maxBlock) :
          /\ hashList' = w
          /\ rsI' = 1
          /\ rsPc' = IF Len(w) = 0 THEN "finish"
                     ELSE IF lastBlockHash = 0 THEN "fetchBlock"
                     ELSE "recoverCheck"
    /\ UNCHANGED <<otherButRescan, storeVars, reorgedOut, rsBegin, rsEnd, minBlock,
                   maxBlock, lastBlockHash, rsResult, rsOut, scanned, nProgress,
                   registered>>

\* recoverFromReorg: the first block of the new window is fetched and
\* must follow the last scanned block.
RsRecoverCheck ==
    /\ rsPc = "recoverCheck"
    /\ IF ~ExistsSha(hashList[1])
       THEN RsReturn("Database")
       ELSE IF ~descendantBlock(lastBlockHash, hashList[1])
       THEN RsReturn("Reorganize")
       ELSE /\ rsPc' = "fetchBlock"
            /\ UNCHANGED rsResult
    /\ UNCHANGED <<otherButRescan, storeVars, reorgedOut, rsBegin, rsEnd, minBlock,
                   maxBlock, hashList, rsI, lastBlockHash, rsOut, scanned,
                   nProgress, registered>>

\* After the loop: the rescanfinished notification of the last scanned
\* block.  With no block scanned lastBlock is nil and the call of its
\* method panics.
RsFinish ==
    /\ rsPc = "finish"
    /\ IF lastBlockHash = 0
       THEN /\ RsReturn("panic")
            /\ UNCHANGED rsOut
       ELSE /\ RsReturn("null")
            /\ rsOut' = QueueRs(<<"rescanfinished", lastBlockHash>>)
    /\ UNCHANGED <<otherButRescan, storeVars, reorgedOut, rsBegin, rsEnd, minBlock,
                   maxBlock, hashList, rsI, lastBlockHash, scanned, nProgress,
                   registered>>

NextRescan ==
    \/ BmConnect
    \/ BmDetach
    \/ BmAttach
    \/ \E begin \in 1..MaxHashes, end \in 0..MaxHashes : RsStart(begin, end)
    \/ RsFetchRange
    \/ RsPause
    \/ RsUnderPause
    \/ RsFetchBlock
    \/ RsRecover
    \/ RsRecoverCheck
    \/ RsFinish
    \/ PipeDisconnect

(***************************************************************************)
(* rescanBlock: the scan of one block for the keys of a rescan request.    *)
(* The locals are a record: the unspent outpoints of the request, the      *)
(* notifications queued to the client, the two flags of the transaction at *)
(* hand, and whether the function has returned.                            *)
(***************************************************************************)
\* The outpoints a request may hold as unspent.
ScanOutPoints == {<<0, 0>>, <<1, 0>>, <<1, 1>>}

\* The client never disconnects: a block queues at most two notifications
\* per transaction.
NeverQuits == 2 * MaxBlockTxs + 1

\* wsc.QueueNotification: ErrClientQuit once the client has disconnected.
ClientQuit(st) == Len(st.out) >= sbQuitAfter

\* The body of the loop over the inputs of transaction h.
rescanTxIn(st, prevOut, h) ==
    IF st.returned \/ prevOut \notin st.unspent THEN st
    ELSE LET s1 == [st EXCEPT !.unspent = @ \ {prevOut}] IN
         IF s1.spentNotified THEN s1
         ELSE IF <<h, "redeemingtx">> \in sbFails THEN s1
         ELSE IF ClientQuit(s1) THEN [s1 EXCEPT !.returned = TRUE]
         ELSE [s1 EXCEPT !.out = Append(@, [kind |-> "redeemingtx", tx |-> h]),
                         !.spentNotified = TRUE]

RECURSIVE rescanTxIns(_, _, _)
rescanTxIns(st, ins, h) ==
    IF ins = << >> THEN st
    ELSE rescanTxIns(rescanTxIn(st, Head(ins), h), Tail(ins), h)

\* newRecvTxNotification failed: return.
MarshalFailure(s1) == [s1 EXCEPT !.returned = TRUE]

\* The body of the loop over the addresses of output idx of transaction h;
\* the type switch over the address finds it among the keys of the request
\* or continues.
rescanTxOutAddr(st, addr, h, idx) ==
    IF st.returned \/ addr \notin sbKeys THEN st
    ELSE LET s1 == [st EXCEPT !.unspent = @ \cup {<<h, idx>>}] IN
         IF s1.recvNotified THEN s1
         ELSE IF <<h, "recvtx">> \in sbFails THEN MarshalFailure(s1)
         ELSE IF ClientQuit(s1) THEN [s1 EXCEPT !.returned = TRUE]
         ELSE [s1 EXCEPT !.out = Append(@, [kind |-> "recvtx", tx |-> h]),
                         !.recvNotified = TRUE]

RECURSIVE rescanTxOutAddrs(_, _, _, _)
rescanTxOutAddrs(st, addrs, h, idx) ==
    IF addrs = << >> THEN st
    ELSE rescanTxOutAddrs(rescanTxOutAddr(st, Head(addrs), h, idx), Tail(addrs), h, idx)

RECURSIVE rescanTxOuts(_, _, _, _)
rescanTxOuts(st, outs, h, idx) ==
    IF outs = << >> THEN st
    ELSE rescanTxOuts(rescanTxOutAddrs(st, Head(outs), h, idx), Tail(outs), h, idx + 1)

\* One turn of the loop over the transactions of the block.
rescanTx(st, h) ==
    LET s0 == [st EXCEPT !.spentNotified = FALSE, !.recvNotified = FALSE] IN
    rescanTxOuts(rescanTxIns(s0, TxIn(h), h), TxOut(h), h, 0)

\* handleRescan calls rescanBlock on a block, with the keys and the unspent
\* outpoints of the request.
ScanStart(blk, keys, unspent, fails, quitAfter) ==
    /\ sbPc = "idle"
    /\ sbPc' = "scan"
    /\ sbBlock' = blk
    /\ sbKeys' = keys
    /\ sbFails' = fails
    /\ sbQuitAfter' = quitAfter
    /\ sbI' = 1
    /\ sbSt' = [sbSt EXCEPT !.unspent = unspent]
    /\ sbLog' = << >>
    /\ UNCHANGED otherButScan

\* for _, tx := range blk.Transactions() { ... }
ScanTx ==
    /\ sbPc = "scan"
    /\ LET after == rescanTx(sbSt, sbBlock[sbI]) IN
       /\ sbSt' = after
       /\ sbLog' = Append(sbLog, [tx |-> sbBlock[sbI], before |-> sbSt.unspent,
                                  after |-> after.unspent])
       /\ sbI' = sbI + 1
       /\ sbPc' = IF after.returned \/ sbI = Len(sbBlock) THEN "done" ELSE "scan"
    /\ UNCHANGED <<otherButScan, sbBlock, sbKeys, sbFails, sbQuitAfter>>

NextScan ==
    \/ \E blk \in Blocks, keys \in SUBSET Addrs, unspent \in SUBSET ScanOutPoints,
          fails \in SUBSET (TxHashes \X {"redeemingtx", "recvtx"}),
          quitAfter \in 0..NeverQuits :
          ScanStart(blk, keys, unspent, fails, quitAfter)
    \/ ScanTx

(***************************************************************************)
(* One client from AddClient to RemoveClient: its inHandler handles        *)
(* subscription commands, a rescan handler registers it for the live       *)
(* notifications, the publishers send events, and the messages of all of   *)
(* them go through the relay to the router.                                *)
(***************************************************************************)
\* Subscription commands the inHandler handles.
MaxSubCmds == 1

\* Events the publishers send while the client lives.
MaxEvents == 1

otherButSub == <<indexVars, obsVars, flagVars, queueVars, takeVars, serverVars,
                 countVars, lockVars, verboseTxUpdates, authVars, pipeVars,
                 undoVars, fanVars, asyncVars, rescanVars, handled, relayPc,
                 quit, calls, accepted>>

\* The messages of notifyblocks, notifynewtransactions, notifyreceived
\* and notifyspent.
SubMsgs ==
    {ClientMsg("registerBlocks", TheClient),
     ClientMsg("registerNewMempoolTxs", TheClient),
     Msg("registerAddr", TheClient, << >>, <<"a1">>, << >>, FALSE),
     Msg("registerSpent", TheClient, << <<1, 0>> >>, << >>, << >>, FALSE)}

\* The command of the client whose whole life is followed: notifyreceived
\* for the address transaction 1 pays to.
LifeMsgs == {Msg("registerAddr", TheClient, << >>, <<"a1">>, << >>, FALSE)}

Accepted_atOnce(s) == TRUE

\* m.queueNotification <- n has returned: the channel has no buffer, so
\* queueHandler has received the message.
Accepted(s) == sendReq[s] = NoMsg

\* inHandler has read a subscription command: its handler calls Register*
\* or Unregister*, which blocks sending the message.
SubCommand(m) ==
    /\ wsPc[TheClient] = "running"
    /\ ~Disconnected(TheClient)
    /\ subPc = "idle"
    /\ Len(replied) < MaxSubCmds
    /\ \A k \in DOMAIN replied : replied[k].msg # m
    /\ subPc' = "register"
    /\ subMsg' = m
    /\ sendReq' = [sendReq EXCEPT !["inHandler"] = m]
    /\ UNCHANGED <<otherButSub, replied, upPc>>

\* The handler has returned: handleMessage marshals the reply and
\* SendMessage places it on sendChan unless the client is disconnected.
SubReply ==
    /\ subPc = "register"
    /\ Accepted("inHandler")
    /\ replied' = Append(replied, [msg |-> subMsg, acc |-> Len(accepted),
                                   sent |-> ~Disconnected(TheClient)])
    /\ subPc' = "idle"
    /\ UNCHANGED <<otherButSub, sendReq, subMsg, upPc>>

\* inHandler finds the client disconnected and leaves its loop.
SubExit ==
    /\ subPc = "idle"
    /\ Disconnected(TheClient)
    /\ subPc' = "done"
    /\ UNCHANGED <<otherButSub, sendReq, subMsg, replied, upPc>>

\* The handler of a rescan, run by asyncHandler while the client's tasks
\* run, has caught up with the best block: RegisterSpentRequests.
UpStart ==
    /\ wsPc[TheClient] = "running"
    /\ upPc = "none"
    /\ upPc' = "spent"
    /\ sendReq' = [sendReq EXCEPT !["rescanHandler"] =
                      Msg("registerSpent", TheClient, << <<1, 1>> >>, << >>, << >>, FALSE)]
    /\ UNCHANGED <<otherButSub, subPc, subMsg, replied>>

\* RegisterTxOutAddressRequests.
UpAddr ==
    /\ upPc = "spent"
    /\ Accepted("rescanHandler")
    /\ upPc' = "addr"
    /\ sendReq' = [sendReq EXCEPT !["rescanHandler"] =
                      Msg("registerAddr", TheClient, << >>, <<"a2">>, << >>, FALSE)]
    /\ UNCHANGED <<otherButSub, subPc, subMsg, replied>>

\* The handler returns.
UpDone ==
    /\ upPc = "addr"
    /\ Accepted("rescanHandler")
    /\ upPc' = "done"
    /\ UNCHANGED <<otherButSub, sendReq, subPc, subMsg, replied>>

TasksDone_always == TRUE

\* c.wg.Wait(): inHandler and every handler asyncHandler started have
\* returned.
TasksDone == subPc = "done" /\ upPc \in {"none", "done"}

\* WaitForShutdown has returned: RemoveClient.
SubRemoveClient ==
    /\ TasksDone
    /\ WsRemoveClient(TheClient)

\* A publisher sends an event once the client has started.
SubNotify(p) ==
    /\ calls < MaxEvents
    /\ wsPc[TheClient] \in {"running", "removeClient", "done"}
    /\ NotifyCall(p)

NextSub ==
    \/ WsConnect(TheClient)
    \/ NumClientsRecv(TheClient)
    \/ WsStart(TheClient)
    \/ WsClientDisconnects(TheClient)
    \/ \E m \in SubMsgs : SubCommand(m)
    \/ SubReply
    \/ SubExit
    \/ \E p \in Publishers : SubNotify(p)
    \/ \E s \in Publishers \cup {TheClient, "inHandler"} : RelayIn(s)
    \/ RelayDequeue
    \/ RouterHandle

NextLife ==
    \/ WsConnect(TheClient)
    \/ NumClientsRecv(TheClient)
    \/ WsStart(TheClient)
    \/ WsClientDisconnects(TheClient)
    \/ SubRemoveClient
    \/ WsDone(TheClient)
    \/ \E m \in LifeMsgs : SubCommand(m)
    \/ SubReply
    \/ SubExit
    \/ UpStart
    \/ UpAddr
    \/ UpDone
    \/ SubNotify("blockManager")
    \/ \E s \in Tasks \cup {TheClient, "blockManager"} : RelayIn(s)
    \/ RelayDequeue
    \/ RouterHandle

(***************************************************************************)
(* The state after construction, and the specifications.                   *)
(***************************************************************************)
Init ==
    /\ clients = {}
    /\ blockNotifications = {}
    /\ txNotifications = {}
    /\ watchedOutPoints = EmptyMap
    /\ watchedAddrs = EmptyMap
    /\ spentRequests = [c \in Conns |-> {}]
    /\ addrRequests = [c \in Conns |-> {}]
    /\ verboseTxUpdates = [c \in Conns |-> FALSE]
    /\ disconnected = [c \in Conns |-> FALSE]
    /\ quitCloses = [c \in Conns |-> 0]
    /\ connCloses = [c \in Conns |-> 0]
    /\ lastMsg = NoLabel
    /\ ntfns = [c \in Conns |-> << >>]
    /\ handled = 0
    /\ routerPc = "select"
    /\ routerMsg = NoMsg
    /\ q = << >>
    /\ next = NoMsg
    /\ skipQueue = TRUE
    /\ dequeue = FALSE
    /\ relayPc = "running"
    /\ quit = FALSE
    /\ sendReq = [s \in Publishers \cup Conns \cup Tasks |-> NoMsg]
    /\ calls = 0
    /\ accepted = << >>
    /\ emitted = << >>
    /\ path = << >>
    /\ wsPc = [h \in Conns |-> "new"]
    /\ seen = [h \in Conns |-> 0]
    /\ nReg = 0
    /\ nUnreg = 0
    /\ mutex = "free"
    /\ dPc = [t \in DiscCallers |-> "idle"]
    /\ dCalls = [t \in DiscCallers |-> 0]
    /\ authenticated = FALSE
    /\ isAdmin = FALSE
    /\ inPc = "new"
    /\ inMsg = NoFrame
    /\ nRead = 0
    /\ nPreAuth = 0
    /\ replies = << >>
    /\ dispatched = << >>
    /\ ctl = << >>
    /\ qnPc = [k \in NtfnCallers |-> "idle"]
    /\ qnMsg = [k \in NtfnCallers |-> 0]
    /\ qnRes = [k \in NtfnCallers |-> "none"]
    /\ nQn = 0
    /\ ntfnChan = << >>
    /\ ntfnSentChan = << >>
    /\ sendChan = << >>
    /\ nqPc = "select"
    /\ nqMsg = 0
    /\ pendingNtfns = << >>
    /\ waiting = FALSE
    /\ outPc = "select"
    /\ outMsg = 0
    /\ rdPc = "idle"
    /\ nReplies = 0
    /\ enq = << >>
    /\ handed = << >>
    /\ written = << >>
    /\ undoPc = "prior"
    /\ undoMsg = NoMsg
    /\ snap = << >>
    /\ fanPc = "prior"
    /\ fanOrder = << >>
    /\ rdrPc = "idle"
    /\ rdrCmd = 0
    /\ nCmds = 0
    /\ asyncChan = << >>
    /\ asPc = "notStarted"
    /\ pendingCmds = << >>
    /\ asWaiting = FALSE
    /\ asyncHandlerDoneChan = 0
    /\ hPc = [cmd \in 1..MaxCmds |-> "none"]
    /\ asReceived = << >>
    /\ asStarted = << >>
    /\ chain = <<1>>
    /\ prevOf = [h \in {1} |-> 0]
    /\ nextHash = 2
    /\ bmPc = "idle"
    /\ origLen = 0
    /\ paused = FALSE
    /\ rsLog = << >>
    /\ rsPc = "idle"
    /\ rsBegin = 0
    /\ rsEnd = 0
    /\ minBlock = 0
    /\ maxBlock = 0
    /\ hashList = << >>
    /\ rsI = 0
    /\ lastBlockHash = 0
    /\ rsResult = "none"
    /\ rsOut = << >>
    /\ scanned = << >>
    /\ nProgress = 0
    /\ registered = FALSE
    /\ reorgedOut = FALSE
    /\ sbPc = "idle"
    /\ sbBlock = << >>
    /\ sbKeys = {}
    /\ sbFails = {}
    /\ sbQuitAfter = 0
    /\ sbI = 1
    /\ sbSt = [unspent |-> {}, out |-> << >>, spentNotified |-> FALSE,
               recvNotified |-> FALSE, returned |-> FALSE]
    /\ sbLog = << >>
    /\ subPc = "idle"
    /\ subMsg = NoMsg
    /\ replied = << >>
    /\ upPc = "none"

\* The router on its own, fed with any message.
SpecRouter == Init /\ [][NextRouter]_vars

\* The publishers, the relay and the router behind it.
SpecRelay == Init /\ [][NextRelay]_vars

\* The relay is scheduled (every blocked sender is served in turn) and a
\* publisher woken by quit runs; nothing is assumed of the router.
FairSpecRelay ==
    /\ SpecRelay
    /\ \A p \in Publishers : WF_vars(RelayIn(p)) /\ WF_vars(NotifyQuit(p))

\* The connection handlers, the relay and the router.
SpecServer == Init /\ [][NextServer]_vars

\* The callers of Disconnect on one client.
SpecClient == Init /\ [][NextClient]_vars

\* The reader of one client.
SpecReader == Init /\ [][NextReader]_vars

\* The outgoing side of one client.
SpecPipe == Init /\ [][NextPipe]_vars

\* The router handling a register message and then its unregister message.
SpecUndo == Init /\ [][NextUndo]_vars

\* The router handling a mempool transaction whose verbose form fails.
SpecFanout == Init /\ [][NextFanout]_vars

\* One rescan against a chain that grows and reorganizes.
SpecRescan == Init /\ [][NextRescan]_vars

\* rescanBlock on any block, for any keys and unspent outpoints.
SpecScan == Init /\ [][NextScan]_vars

\* The subscription commands of a running client and the events of the
\* publishers.
SpecSub == Init /\ [][NextSub]_vars

\* One client from AddClient to RemoveClient.
SpecLife == Init /\ [][NextLife]_vars

\* The long-running commands of one client.
SpecAsync == Init /\ [][NextAsync]_vars

\* The same with the notifications of the running handler and of the router.
SpecAsyncPipe == Init /\ [][NextAsyncPipe]_vars


(***************************************************************************)
(* Properties of the router.                                               *)
(***************************************************************************)
Count(s, kind, h) == Cardinality({i \in DOMAIN s : s[i].kind = kind /\ s[i].tx = h})

Watchers(op) == IF op \in DOMAIN watchedOutPoints THEN watchedOutPoints[op] ELSE {}

AddrWatchers(a) == IF a \in DOMAIN watchedAddrs THEN watchedAddrs[a] ELSE {}

SeenOutPoints == (DOMAIN watchedOutPoints) \cup UNION {spentRequests[c] : c \in Clients}

SeenAddrs == (DOMAIN watchedAddrs) \cup UNION {addrRequests[c] : c \in Clients}

\* C3: after every message the router has handled, an outpoint is in a
\* client's spentRequests exactly when the client is in that outpoint's entry
\* of watchedOutPoints, and an address is in its addrRequests exactly when the
\* client is in that address's entry of watchedAddrs.
C3_MirrorSets ==
    /\ \A c \in Clients : \A op \in SeenOutPoints \cup OutPoints :
          op \in spentRequests[c] <=> c \in Watchers(op)
    /\ \A c \in Clients : \A a \in SeenAddrs \cup Addrs :
          a \in addrRequests[c] <=> c \in AddrWatchers(a)

\* A block was handled that paid a watched address, so that the router itself
\* registered the new outpoint for the client, who still watches another one.
C3_Witness ==
    /\ lastMsg.type = "blockConnected"
    /\ \E c \in Clients :
          /\ <<2, 0>> \in spentRequests[c]
          /\ c \in Watchers(<<2, 0>>)
          /\ addrRequests[c] # {}

\* The outpoints spent by the inputs of the transactions txs.
InputsOf(txs) == UNION {{TxIn(txs[i])[k] : k \in DOMAIN TxIn(txs[i])} : i \in DOMAIN txs}

Handles(type) == handled' = handled + 1 /\ lastMsg'.type = type

C6_OneNotificationPerTx ==
    \A c \in Clients : \A h \in TxHashes :
        /\ Count(ntfns[c], "recvtx", h) <= 1
        /\ Count(ntfns[c], "redeemingtx", h) <= 1

\* A client watching both addresses got its single recvtx for tx 1, whose two
\* outputs pay it three times over, and its single redeemingtx for tx 2, whose
\* two inputs spend outpoints it watched.
C6_Witness ==
    /\ lastMsg.type = "blockConnected"
    /\ lastMsg.txs = <<1, 2>>
    /\ \E c \in Clients :
          /\ addrRequests[c] = {"a1", "a2"}
          /\ Count(ntfns[c], "recvtx", 1) = 1
          /\ Count(ntfns[c], "redeemingtx", 2) = 1

\* The client is in none of the router's indices.
NotIndexed(c) ==
    /\ c \notin clients
    /\ c \notin blockNotifications
    /\ c \notin txNotifications
    /\ \A op \in DOMAIN watchedOutPoints : c \notin watchedOutPoints[op]
    /\ \A a \in DOMAIN watchedAddrs : c \notin watchedAddrs[a]

\* C7 as claimed: a client on which Disconnect has been called is in no
\* router index.
C7_DisconnectedNotIndexed ==
    \A c \in Clients : disconnected[c] => NotIndexed(c)

\* C7: once the router has handled the unregisterClient message of a client
\* (the one RemoveClient sends after the client has shut down), the client is
\* in none of clients, blockNotifications, txNotifications, nor in any inner
\* map of watchedOutPoints or watchedAddrs.
C7_UnregisteredNotIndexed ==
    lastMsg.type = "unregisterClient" => NotIndexed(lastMsg.wsc)

\* A disconnected client was unregistered while another client stays in the
\* outpoint and address indices.
C7_Witness ==
    /\ lastMsg.type = "unregisterClient"
    /\ disconnected[lastMsg.wsc]
    /\ spentRequests[lastMsg.wsc] = {}
    /\ \E c \in Clients \ {lastMsg.wsc} :
          spentRequests[c] # {} /\ addrRequests[c] # {}

(***************************************************************************)
(* The relay.                                                              *)
(***************************************************************************)
IsPrefix(a, b) == Len(a) <= Len(b) /\ SubSeq(b, 1, Len(a)) = a

\* C1: every Notify* call of a publisher returns, however many items are
\* queued and however long the router stays busy with one message; only the
\* relay and the publisher itself are assumed to run.
C1_PublishersReturn ==
    \A p \in Publishers : (sendReq[p] # NoMsg) ~> (sendReq[p] = NoMsg)

\* Calls of both publishers have returned while the router is still busy
\* with the first item and the others wait in the queue.
C1_Witness ==
    /\ routerPc = "busy"
    /\ ~quit
    /\ Len(emitted) = 1
    /\ Len(q) >= 2
    /\ Len(accepted) = Len(q) + 1
    /\ \E i, j \in DOMAIN accepted :
          accepted[i].type = "mempoolTx" /\ accepted[j].type = "blockConnected"
    /\ \A p \in Publishers : sendReq[p] = NoMsg

\* C2: while quit is open, what the relay has emitted on out is a prefix of
\* what it has accepted on in, and what it has accepted and not emitted is
\* its queue, in order.
C2_RelayFifo ==
    ~quit => /\ IsPrefix(emitted, accepted)
             /\ accepted = emitted \o q

\* Items went out by the fast path and through the queue, in the order they
\* came in, and differ.
C2_Witness ==
    /\ ~quit
    /\ Len(emitted) >= 3
    /\ \E i, j \in DOMAIN path : path[i] = "direct" /\ path[j] = "queued"
    /\ \E i, j \in DOMAIN emitted :
          /\ i < j
          /\ path[i] = "queued" /\ path[j] = "queued"
          /\ emitted[i] # emitted[j]

(***************************************************************************)
(* The server.                                                             *)
(***************************************************************************)
\* NumClients returns to the handler of h in this step.
NumClientsReturns(h) == wsPc[h] = "numClients" /\ wsPc'[h] # "numClients"

\* The connections for which AddClient, RemoveClient have been called, and
\* those for which the call has returned.
AddCalled == {g \in Conns : wsPc[g] \in {"addClient", "running", "removeClient", "done"}}

AddReturned == {g \in AddCalled : wsPc[g] = "addClient" => sendReq[g] = NoMsg}

RemoveCalled == {g \in Conns : wsPc[g] \in {"removeClient", "done"}}

RemoveReturned == {g \in RemoveCalled : wsPc[g] = "removeClient" => sendReq[g] = NoMsg}

\* C8 as stated: NumClients returns the number of clients for which AddClient
\* has been called minus the number for which RemoveClient has been called,
\* whether a call still in progress counts or not.
C8_CountsCalls ==
    [][\A h \in Conns : NumClientsReturns(h) =>
            /\ seen'[h] >= Cardinality(AddReturned) - Cardinality(RemoveCalled)
            /\ seen'[h] <= Cardinality(AddCalled) - Cardinality(RemoveReturned)]_vars

\* C8: NumClients returns the number of registerClient messages the router
\* has handled minus the number of unregisterClient messages it has handled,
\* or 0 once quit is closed.
C8_CountsHandled ==
    [][\A h \in Conns : NumClientsReturns(h) =>
            \/ seen'[h] = nReg - nUnreg
            \/ quit /\ seen'[h] = 0]_vars

\* NumClients returned 0 to h although AddClient had been called for g: the
\* router had not handled g's registerClient.
C8_Witness ==
    /\ ~quit
    /\ nReg = 0
    /\ \E h, g \in Conns :
          /\ h # g
          /\ wsPc[g] = "running"
          /\ wsPc[h] = "addClient"
          /\ seen[h] = 0

\* A connection that was refused: its socket was closed once, no client was
\* made for it and nothing of it is on its way to the router or in it.
Refused(h) ==
    /\ wsPc[h] = "refused"
    /\ connCloses[h] = 1
    /\ quitCloses[h] = 0
    /\ sendReq[h] = NoMsg
    /\ h \notin clients
    /\ routerMsg.wsc # h
    /\ \A i \in DOMAIN q : q[i].wsc # h

\* C9 as stated: when the router's clients map holds exactly RPCMaxWebsockets
\* clients, the connection whose NumClients call returns is refused, and a
\* refused connection is closed and never added.
C9_RefusedAtLimit ==
    /\ [][\A h \in Conns :
            NumClientsReturns(h) /\ Cardinality(clients) = RPCMaxWebsockets
                => wsPc'[h] = "refused"]_vars
    /\ [](\A h \in Conns : wsPc[h] = "refused" => Refused(h))

\* C9: the same while quit is open, when NumClients reads the count from the
\* router.
C9_RefusedAtLimitBeforeQuit ==
    /\ [][\A h \in Conns :
            NumClientsReturns(h) /\ ~quit /\ Cardinality(clients) = RPCMaxWebsockets
                => wsPc'[h] = "refused"]_vars
    /\ [](\A h \in Conns : wsPc[h] = "refused" => Refused(h))

\* The map is full, quit is open and the next connection was refused.
C9_Witness ==
    /\ ~quit
    /\ Cardinality(clients) = RPCMaxWebsockets
    /\ \E h \in Conns : seen[h] = RPCMaxWebsockets /\ Refused(h)

(***************************************************************************)
(* Disconnect.                                                             *)
(***************************************************************************)
\* C10: whatever the number and interleaving of Disconnect calls on a
\* client, its quit channel and its socket are closed at most once, exactly
\* once as soon as one call has returned; once the flag is set no call
\* changes anything and the flag is never reset.
C10_DisconnectOnce ==
    /\ [](/\ quitCloses[TheClient] <= 1
          /\ connCloses[TheClient] <= 1
          /\ (\/ disconnected[TheClient]
              \/ \E t \in DiscCallers : dCalls[t] >= 1 /\ dPc[t] = "idle")
                => /\ disconnected[TheClient]
                   /\ quitCloses[TheClient] = 1
                   /\ connCloses[TheClient] = 1)
    /\ [][disconnected[TheClient] =>
             /\ disconnected'[TheClient]
             /\ UNCHANGED <<quitCloses, connCloses>>]_vars

\* Every caller has called Disconnect more than once, one call found the
\* flag set while another caller waited for the mutex.
C10_Witness ==
    /\ disconnected[TheClient]
    /\ quitCloses[TheClient] = 1
    /\ connCloses[TheClient] = 1
    /\ \A t \in DiscCallers : dCalls[t] >= 2
    /\ \E t, u \in DiscCallers : dPc[t] = "unlock" /\ dPc[u] = "lock"

(***************************************************************************)
(* The reader.                                                             *)
(***************************************************************************)
\* handleMessage returns in this step.
HandlesFrame == inPc = "handle" /\ inPc' = "loop"

\* A frame that is not an authenticate command with credentials matching
\* the admin or the limited hash.
NotValidAuthenticate(m) ==
    ~(m.parses /\ m.cmdOk /\ m.method = "authenticate"
        /\ m.creds \in {"admin", "limited"})

\* C11: an unauthenticated client has at most one frame handled; when that
\* frame is not a valid authenticate the client is disconnected, stays
\* unauthenticated, no handler is dispatched, no control message is sent,
\* no reply is given and the reader reads and handles nothing more.
C11_OneFrameBeforeAuth ==
    /\ [](/\ nPreAuth <= 1
          /\ (~authenticated /\ nPreAuth = 1) =>
                /\ disconnected[TheClient]
                /\ dispatched = << >>
                /\ ctl = << >>
                /\ replies = << >>)
    /\ [][/\ (HandlesFrame /\ ~authenticated /\ NotValidAuthenticate(inMsg))
                => disconnected'[TheClient] /\ ~authenticated'
          /\ (~authenticated /\ nPreAuth = 1)
                => ~HandlesFrame /\ nRead' = nRead /\ inPc' # "handle"]_vars

\* The reader has stopped after a single frame with wrong credentials.
C11_Witness ==
    /\ inPc = "done"
    /\ nRead = 1
    /\ nPreAuth = 1
    /\ inMsg.method = "authenticate"
    /\ inMsg.creds = "bad"
    /\ ~authenticated
    /\ disconnected[TheClient]

\* C12 as stated: an authenticate command handled for an authenticated client,
\* admin or limited, disconnects the client.
C12_SecondAuthenticateDisconnects ==
    [][(/\ HandlesFrame
        /\ authenticated
        /\ inMsg.parses
        /\ inMsg.cmdOk
        /\ inMsg.method = "authenticate")
            => disconnected'[TheClient]]_vars

C28_NoIdDropped ==
    [][(/\ HandlesFrame
        /\ authenticated
        /\ inMsg.parses
        /\ ~inMsg.hasId)
            => UNCHANGED <<replies, dispatched, ctl, indexVars, flagVars,
                           authenticated, isAdmin>>]_vars

\* An admin client's well-formed notifyblocks request without id was
\* handled: nothing was replied, dispatched or sent to the router.
C28_Witness ==
    /\ inPc = "loop"
    /\ authenticated
    /\ isAdmin
    /\ ~disconnected[TheClient]
    /\ nRead = 1
    /\ inMsg.parses /\ inMsg.cmdOk /\ ~inMsg.hasId
    /\ inMsg.method = "notifyblocks"
    /\ replies = << >>
    /\ dispatched = << >>
    /\ ctl = << >>
    /\ blockNotifications = {}

\* C17 as stated: once Shutdown has closed quit and the relay and the router
\* have left their loops, every client for which AddClient has returned and
\* RemoveClient has not been called is disconnected.  Past that point nothing
\* of the manager runs that could still disconnect a client.
C17_ShutdownDisconnectsAdded ==
    (quit /\ relayPc = "done" /\ routerPc = "done") =>
        \A h \in AddReturned \ RemoveCalled : disconnected[h]

\* C17, amended: once the router has left its loop every client of its
\* clients map is disconnected; a client whose registerClient was still in
\* the relay is not in the map.
C17_ShutdownDisconnectsRegistered ==
    routerPc = "done" => \A c \in clients : disconnected[c]

\* Shutdown found a running client in the clients map and the router
\* disconnected it.
C17_Witness ==
    /\ quit
    /\ routerPc = "done"
    /\ \E c \in clients :
          /\ wsPc[c] = "running"
          /\ disconnected[c]
          /\ quitCloses[c] = 1

(***************************************************************************)
(* Block and transaction notifications.                                    *)
(***************************************************************************)
\* The blockconnected notifications queued to c for the block.
BlockNtfns(c, block) ==
    {i \in DOMAIN ntfns[c] :
        ntfns[c][i].kind = "blockconnected" /\ ntfns[c][i].block = block}

AutoWatched ==
    \A c \in Clients : \A p \in DOMAIN lastMsg.txs :
        LET h == lastMsg.txs[p]
        IN \A i \in DOMAIN TxOut(h) : \A k \in DOMAIN TxOut(h)[i] :
              (/\ c \in AddrWatchers(TxOut(h)[i][k])
               /\ \/ lastMsg.type = "mempoolTx"
                  \/ <<h, i - 1>> \notin InputsOf(
                        [j \in 1..(Len(lastMsg.txs) - p) |-> lastMsg.txs[p + j]]))
                  => /\ c \in Watchers(<<h, i - 1>>)
                     /\ <<h, i - 1>> \in spentRequests[c]

C14_ClientQuitWhenDisconnected ==
    [][\A k \in NtfnCallers :
          (qnPc[k] = "check" /\ qnPc'[k] # "check" /\ disconnected[TheClient])
              => /\ qnPc'[k] = "idle"
                 /\ qnRes'[k] = "ErrClientQuit"
                 /\ ntfnChan' = ntfnChan
                 /\ enq' = enq]_vars

\* A call returned ErrClientQuit, and the notification it carried never
\* entered ntfnChan.
C14_Witness ==
    /\ disconnected[TheClient]
    /\ \E k \in NtfnCallers :
          /\ qnPc[k] = "idle"
          /\ qnRes[k] = "ErrClientQuit"
          /\ \A i \in DOMAIN enq : enq[i] # qnMsg[k]

\* C15 as stated: no QueueNotification caller stays blocked for ever.  A
\* caller at its send with ntfnChan full and notificationQueueHandler gone
\* is blocked for ever: nothing receives from ntfnChan any more.
C15_NoCallerBlockedForGood ==
    \A k \in NtfnCallers :
        ~(/\ qnPc[k] = "send"
          /\ Len(ntfnChan) = ntfnChanSize
          /\ nqPc = "done")

\* C16 as stated: after quit is closed every task of the client ends.  The
\* long-running handler blocked on ntfnChan, or a sender blocked on sendChan,
\* after their reader has ended never ends.
C16_NoTaskBlockedForGood ==
    quitCloses[TheClient] > 0 =>
        /\ ~(/\ qnPc["rescan"] = "send"
             /\ Len(ntfnChan) = ntfnChanSize
             /\ nqPc = "done")
        /\ ~(/\ nqPc = "put" \/ rdPc = "put"
             /\ Len(sendChan) = websocketSendBufferSize
             /\ outPc = "done")

\* The notifications on sendChan, in order.
RECURSIVE Ntfns(_)
Ntfns(ch) ==
    IF ch = << >> THEN << >>
    ELSE IF Head(ch) = 0 THEN Ntfns(Tail(ch))
    ELSE <<Head(ch)>> \o Ntfns(Tail(ch))

\* C18: what is written to the socket is a prefix of what was handed to
\* sendChan, which is a prefix of what entered ntfnChan; while the client is
\* connected every notification that entered is written, on its way to the
\* writer, in the pending list or in ntfnChan, once and in order.
C18_NotificationOrder ==
    /\ IsPrefix(written, handed)
    /\ IsPrefix(handed, enq)
    /\ ~disconnected[TheClient] =>
          /\ handed = written \o (IF outPc = "write" /\ outMsg # 0 THEN <<outMsg>> ELSE << >>)
                              \o Ntfns(sendChan)
          /\ enq = handed \o (IF nqPc = "put" THEN <<nqMsg>> ELSE << >>)
                          \o pendingNtfns \o ntfnChan

\* Two notifications are written and the third waits in the pending list.
C18_Witness ==
    /\ ~disconnected[TheClient]
    /\ written = <<1, 2>>
    /\ pendingNtfns = <<3>>

(***************************************************************************)
(* Register and unregister.                                                *)
(***************************************************************************)
\* The client of the unregister message held the subscription before the
\* pair (before the lone unregister message).
HeldBefore ==
    LET c == undoMsg.wsc
    IN CASE undoMsg.type = "unregisterBlocks" -> c \in snap[2]
         [] undoMsg.type = "unregisterNewMempoolTxs" -> c \in snap[3]
         [] undoMsg.type = "unregisterSpent" -> undoMsg.ops[1] \in snap[6][c]
         [] undoMsg.type = "unregisterAddr" -> undoMsg.addrs[1] \in snap[7][c]
         [] OTHER -> FALSE

\* C26 as stated: register X for C then unregister X for C leaves the
\* router's indices and the mirror sets as they were before the register,
\* whatever they were.
C26_RegisterUnregisterRestores ==
    undoPc = "undone" => indexVars = snap

\* C26, amended: the same when C did not hold X before the register.
C26_RegisterUnregisterRestoresNew ==
    (undoPc = "undone" /\ ~HeldBefore) => indexVars = snap

\* A client registered and unregistered an outpoint that another client
\* watches and that it did not watch itself.
C26_Witness ==
    /\ undoPc = "undone"
    /\ undoMsg.type = "unregisterSpent"
    /\ ~HeldBefore
    /\ \E d \in Clients \ {undoMsg.wsc} : undoMsg.ops[1] \in spentRequests[d]
    /\ indexVars = snap

\* C27: an unregister message for a subscription its client does not hold
\* leaves the router's indices and every client's mirror sets as they were.
C27_UnheldUnregisterChangesNothing ==
    (undoPc = "alone" /\ ~HeldBefore) => indexVars = snap

\* A client that does not watch an address another client watches sent
\* unregisterAddr for it: the other client's entry is still there.
C27_Witness ==
    /\ undoPc = "alone"
    /\ undoMsg.type = "unregisterAddr"
    /\ ~HeldBefore
    /\ \E d \in Clients \ {undoMsg.wsc} :
          /\ undoMsg.addrs[1] \in addrRequests[d]
          /\ d \in AddrWatchers(undoMsg.addrs[1])

(***************************************************************************)
(* Failures while a notification is built.                                 *)
(***************************************************************************)
\* C30 as stated: when the verbose form of a new mempool transaction cannot
\* be built, every connected subscriber that did not ask for the verbose
\* form still has its txaccepted notification queued.
C30_OthersStillNotified ==
    fanPc = "failed" =>
        \A c \in txNotifications :
            (~verboseTxUpdates[c] /\ ~disconnected[c]) =>
                Count(ntfns[c], "txaccepted", lastMsg.txs[1]) = 1

(***************************************************************************)
(* Long-running commands.                                                  *)
(***************************************************************************)
\* The commands whose handler is executing or about to signal done.
Executing == {cmd \in 1..MaxCmds : hPc[cmd] \in {"run", "signal"}}

C25_HandlerCompletesAfterDisconnect ==
    disconnected[TheClient] =>
        ~\E cmd \in 1..MaxCmds :
            /\ hPc[cmd] = "run"
            /\ qnPc["rescan"] = "send"
            /\ Len(ntfnChan) = ntfnChanSize
            /\ nqPc = "done"

(***************************************************************************)
(* handleRescan.                                                           *)
(***************************************************************************)
\* C21: a rescan whose begin and end blocks are the same block, for a client
\* that stays connected, returns null after queueing exactly one
\* notification, the rescanfinished of that block.
C21_SingleBlockRescan ==
    (rsPc = "done" /\ rsEnd # 0 /\ rsBegin = rsEnd /\ ~Disconnected(TheClient))
        => /\ rsResult = "null"
           /\ rsOut = << <<"rescanfinished", rsBegin>> >>

\* C22: the open-ended rescan that found no further hashes registers the
\* client, under the pause, exactly when the best hash of the store is the
\* hash of the last scanned block.
C22_RegistersIffTipIsLastScanned ==
    [][(rsPc = "underPause" /\ rsVars' # rsVars)
          => (registered' <=> (lastBlockHash # 0 /\ NewestSha = lastBlockHash))]_vars

\* The heights the rescan scanned are consecutive, and each scanned block
\* follows the one scanned before it.
ScannedInARow ==
    \A k \in 2..Len(scanned) :
        /\ scanned[k].height = scanned[k - 1].height + 1
        /\ prevOf[scanned[k].hash] = scanned[k - 1].hash

C24_ReorgEndsRescanWithError ==
    (rsPc = "done" /\ reorgedOut /\ maxBlock = AllShas /\ ~Disconnected(TheClient))
        => /\ rsResult # "null"
           /\ \A i \in DOMAIN rsOut : rsOut[i][1] # "rescanfinished"

(***************************************************************************)
(* The connection limit under concurrent accepts.                          *)
(***************************************************************************)
\* C36: while the manager runs, the router's clients map never holds more
\* than RPCMaxWebsockets clients, however the WebsocketHandler invocations
\* interleave.
C36_ClientsWithinLimit == ~quit => Cardinality(clients) <= RPCMaxWebsockets

(***************************************************************************)
(* Calls on the manager after its quit was closed.                         *)
(***************************************************************************)
\* C39: once the relay has stopped, no connection handler is left inside
\* AddClient, sending on queueNotification a message that nothing will
\* ever receive.
C39_NoSenderLeftBlocked ==
    relayPc = "done"
        => \A h \in Conns : ~(wsPc[h] = "addClient" /\ sendReq[h] # NoMsg)

(***************************************************************************)
(* The inner maps of the router's indices.                                 *)
(***************************************************************************)
\* C32: after every message the router has handled, no outpoint of
\* watchedOutPoints and no address of watchedAddrs maps to an empty set of
\* clients: the entry of a key is deleted with its last client.
C32_NoEmptyInnerMap ==
    /\ \A op \in DOMAIN watchedOutPoints : watchedOutPoints[op] # {}
    /\ \A a \in DOMAIN watchedAddrs : watchedAddrs[a] # {}

\* Block <<2>> was connected and a client got its redeemingtx for tx 2: it
\* was the last client watching an outpoint of tx 1, and no outpoint of tx 1
\* is a key any more, while an address still is.
C32_Witness ==
    /\ lastMsg.type = "blockConnected"
    /\ lastMsg.txs = <<2>>
    /\ \E c \in Clients : Count(ntfns[c], "redeemingtx", 2) = 1
    /\ <<1, 0>> \notin DOMAIN watchedOutPoints
    /\ <<1, 1>> \notin DOMAIN watchedOutPoints
    /\ DOMAIN watchedAddrs # {}

(***************************************************************************)
(* The handshake between notificationQueueHandler and outHandler.          *)
(***************************************************************************)
\* The notifications the queue handler has put on sendChan and outHandler
\* has not answered on the done channel.
Unacked ==
    Cardinality({i \in DOMAIN sendChan : sendChan[i] # 0})
        + (IF outPc = "write" /\ outMsg # 0 THEN 1 ELSE 0)

\* C34: at most one notification of the queue handler is on sendChan or
\* being written and not yet answered; the handler is about to send one only
\* when none is and no answer waits for it; outHandler always finds room on
\* the done channel; and a notification the handler receives while it waits
\* is appended to its pending list and not sent.
C34_OneUnackedNotification ==
    /\ [](Unacked <= 1)
    /\ [](nqPc = "put" => Unacked = 0 /\ ntfnSentChan = << >>)
    /\ []((outPc = "write" /\ outMsg # 0) => Len(ntfnSentChan) < ntfnSentChanSize)
    /\ []((outPc = "cleanup" /\ sendChan # << >> /\ Head(sendChan) # 0)
             => Len(ntfnSentChan) < ntfnSentChanSize)
    /\ [][(nqPc = "select" /\ waiting /\ ntfnChan # << >> /\ ntfnChan' = Tail(ntfnChan))
             => /\ pendingNtfns' = Append(pendingNtfns, Head(ntfnChan))
                /\ nqPc' = "select"
                /\ sendChan' = sendChan]_vars

\* A notification is being written while two more wait in the pending list
\* of the handler.
C34_Witness ==
    /\ outPc = "write"
    /\ outMsg # 0
    /\ Len(pendingNtfns) = 2
    /\ waiting
    /\ ~Disconnected(TheClient)

(***************************************************************************)
(* The acceptance notifications of a mempool transaction.                  *)
(***************************************************************************)
\* The acceptance notifications of transaction h queued to c.
Acceptances(c, h) ==
    Count(ntfns[c], "txaccepted", h) + Count(ntfns[c], "txacceptedverbose", h)

\* C35: after a mempoolTx event is handled, if the transaction is new every
\* connected mempool subscriber has exactly one acceptance notification
\* queued, of the form its flag asks for (a verbose subscriber has none when
\* the verbose form could not be built), and if it is not new nobody has one.
C35_OneAcceptancePerSubscriber ==
    fanPc # "prior" =>
        \A c \in Clients :
            LET h == lastMsg.txs[1] IN
            IF lastMsg.isNew /\ c \in txNotifications /\ ~disconnected[c]
            THEN IF verboseTxUpdates[c]
                 THEN \/ fanPc = "failed" /\ Acceptances(c, h) = 0
                      \/ /\ Count(ntfns[c], "txacceptedverbose", h) = 1
                         /\ Count(ntfns[c], "txaccepted", h) = 0
                 ELSE /\ Count(ntfns[c], "txaccepted", h) = 1
                      /\ Count(ntfns[c], "txacceptedverbose", h) = 0
            ELSE Acceptances(c, h) = 0

(***************************************************************************)
(* The blocks of one rescan.                                               *)
(***************************************************************************)
RECURSIVE HeightOf(_)
\* The height of a block: the number of blocks before it on its branch.
HeightOf(h) == IF prevOf[h] = 0 THEN 0 ELSE 1 + HeightOf(prevOf[h])

\* C40: the blocks a rescan has scanned start at the height of the begin
\* block and form a chain: each is scanned at its own height, which is one
\* more than the height of the block scanned before it, and its previous
\* hash is the hash of that block; so no height is skipped or scanned twice,
\* through every window, reorganize and recovery.
C40_ScannedChainFromBegin ==
    /\ scanned # << >> => scanned[1].height = HeightOf(rsBegin)
    /\ \A k \in DOMAIN scanned :
          /\ scanned[k].height = HeightOf(scanned[k].hash)
          /\ scanned[k].height = HeightOf(rsBegin) + (k - 1)
          /\ k > 1 => prevOf[scanned[k].hash] = scanned[k - 1].hash

\* Three blocks were scanned, the last after a reorganize dropped the block
\* the rescan would have scanned next, and the first is not the begin block
\* any more.
C40_Witness ==
    /\ Len(scanned) >= 3
    /\ scanned[1].hash # rsBegin
    /\ \E i \in DOMAIN rsLog : \E j \in DOMAIN rsLog :
          /\ i < j
          /\ rsLog[j] = <<"conn", scanned[Len(scanned)].hash>>
          /\ rsLog[i][1] = "conn"
          /\ rsLog[i][2] \notin HashesOf(chain)
          /\ rsLog[i][2] # rsBegin

(***************************************************************************)
(* The order of the notifications of one rescan.                           *)
(***************************************************************************)
\* The notifications of the blocks the rescan scans.
PerBlock == {"recvtx", "redeemingtx", "rescanprogress"}

\* C31: the recvtx, redeemingtx and rescanprogress notifications of a rescan
\* are queued in the order of the heights of their blocks, and the
\* rescanfinished notification is queued as the handler returns, after all of
\* them: it is the last notification of the rescan.
C31_RescanNotificationOrder ==
    /\ \A i \in DOMAIN rsOut : \A j \in DOMAIN rsOut :
          (i < j /\ rsOut[i][1] \in PerBlock /\ rsOut[j][1] \in PerBlock)
              => HeightOf(rsOut[i][2]) <= HeightOf(rsOut[j][2])
    /\ \A i \in DOMAIN rsOut :
          rsOut[i][1] = "rescanfinished"
              => /\ i = Len(rsOut)
                 /\ rsPc = "done"
                 /\ \A j \in 1..(i - 1) :
                       /\ rsOut[j][1] \in PerBlock
                       /\ HeightOf(rsOut[j][2]) <= HeightOf(rsOut[i][2])

\* A finished rescan queued a redeemingtx, a recvtx and a rescanprogress
\* notification, for blocks of different heights, and then rescanfinished.
C31_Witness ==
    /\ rsPc = "done"
    /\ Len(rsOut) >= 4
    /\ rsOut[Len(rsOut)][1] = "rescanfinished"
    /\ \E i \in DOMAIN rsOut : rsOut[i][1] = "redeemingtx"
    /\ \E i \in DOMAIN rsOut : rsOut[i][1] = "recvtx"
    /\ \E i \in DOMAIN rsOut : \E j \in DOMAIN rsOut :
          /\ rsOut[i][1] = "rescanprogress"
          /\ rsOut[j][1] \in PerBlock
          /\ rsOut[i][2] # rsOut[j][2]

(***************************************************************************)
(* The scan of one block.                                                  *)
(***************************************************************************)
\* The outpoints of the outputs of transaction h that pay to a key.
PaidOutPoints(h) ==
    {<<h, i - 1>> : i \in {i \in DOMAIN TxOut(h) :
                              \E k \in DOMAIN TxOut(h)[i] : TxOut(h)[i][k] \in sbKeys}}

\* The outpoints the inputs of transaction h spend.
SpentOutPoints(h) == {TxIn(h)[i] : i \in DOMAIN TxIn(h)}

\* The positions in the queue of the notifications of one kind for h.
QueuedAt(kind, h) ==
    {i \in DOMAIN sbSt.out : sbSt.out[i] = [kind |-> kind, tx |-> h]}

\* C33: the scan of a block for a client that stays connected goes through
\* all the transactions of the block in their order; of each it removes
\* from unspent every outpoint an input spends and then inserts the outpoint
\* of every output paying to a key; and it queues, in the order of the
\* transactions and a redeemingtx before a recvtx, one redeemingtx for a
\* transaction with an input that was in unspent and one recvtx for a
\* transaction with an output paying to a key (none of a kind that cannot be
\* marshalled), and nothing else.
C33_BlockScan ==
    (sbPc = "done" /\ sbQuitAfter = NeverQuits) =>
        /\ Len(sbLog) = Len(sbBlock)
        /\ \A k \in DOMAIN sbLog :
              LET h == sbLog[k].tx
                  spent == SpentOutPoints(h) \cap sbLog[k].before
                  paid == PaidOutPoints(h)
              IN  /\ h = sbBlock[k]
                  /\ k > 1 => sbLog[k].before = sbLog[k - 1].after
                  /\ sbLog[k].after = (sbLog[k].before \ SpentOutPoints(h)) \cup paid
                  /\ Cardinality(QueuedAt("redeemingtx", h))
                        = IF spent # {} /\ <<h, "redeemingtx">> \notin sbFails
                          THEN 1 ELSE 0
                  /\ Cardinality(QueuedAt("recvtx", h))
                        = IF paid # {} /\ <<h, "recvtx">> \notin sbFails
                          THEN 1 ELSE 0
                  /\ \A i \in QueuedAt("redeemingtx", h) :
                        \A j \in QueuedAt("recvtx", h) : i < j
                  /\ \A l \in DOMAIN sbLog : k < l =>
                        \A i \in DOMAIN sbSt.out : \A j \in DOMAIN sbSt.out :
                            (sbSt.out[i].tx = h /\ sbSt.out[j].tx = sbLog[l].tx) => i < j

(***************************************************************************)
(* Subscription replies and the events after them.                         *)
(***************************************************************************)
\* The messages between the relay's input and the end of the router's
\* handling, oldest first.
Pipeline == (IF routerPc = "busy" THEN <<routerMsg>> ELSE << >>) \o q

\* The events the router has taken, or will take, before the message at
\* place i of the pipeline.
EventsAhead(i) ==
    Len(emitted)
        + Cardinality({j \in 1..(i - 1) :
                          Traced(Pipeline[j]) /\ ~(j = 1 /\ routerPc = "busy")})

C37_RemovedStaysOut ==
    nUnreg >= 1 =>
        /\ NotIndexed(TheClient)
        /\ subPc = "done"
        /\ upPc \in {"none", "done"}
        /\ \A s \in DOMAIN sendReq : sendReq[s].wsc # TheClient
        /\ \A i \in DOMAIN Pipeline : Pipeline[i].wsc # TheClient

\* The client had registered an address by its reader and an address and an
\* outpoint by its rescan, was removed, and a block that pays to the address
\* was handled after that.
C37_Witness ==
    /\ nUnreg >= 1
    /\ upPc = "done"
    /\ \E k \in DOMAIN replied : replied[k].msg.type = "registerAddr"
    /\ lastMsg.type = "blockConnected"
    /\ routerPc = "select"

====
